---- MODULE Spec2Model ----
(***************************************************************************)
(* A model of the language-learning chatbot backend (src/main.py,          *)
(* src/db.py): the credential/session manager with its per-IP failure      *)
(* throttle, conversation ownership, and the bidirectional translation     *)
(* cache with the batch translate handler.                                 *)
(*                                                                         *)
(* Time is a discrete clock `now`.  Every timestamp the code writes is     *)
(* datetime.utcnow() (isoformat() strings in the database, whose           *)
(* lexicographic order is the chronological order), so timestamps are      *)
(* clock values and the SQL string comparisons are integer comparisons.    *)
(* Strings whose characters the code inspects (usernames, invite codes,    *)
(* passwords) are sequences of one-character strings.                      *)
(***************************************************************************)
EXTENDS Integers, Sequences, FiniteSets, TLC

(***************************************************************************)
(* Bounds of the model.                                                    *)
(***************************************************************************)
MaxTime == 2
MaxSessions == 2
MaxConversations == 2
MaxMessages == 4
MaxCacheRows == 6
MaxStarterIds == 4
MaxPending == 2

(***************************************************************************)
(* Program constants.  The two durations are in clock ticks and the        *)
(* failure threshold is scaled down (the source has 14 days, 900 seconds   *)
(* and 10 failures); the handlers only compare against them.               *)
(***************************************************************************)
SESSION_TTL_DAYS == 2
PASSWORD_MIN_LENGTH == 10
AUTH_RATE_LIMIT_WINDOW_SECONDS == 1
AUTH_RATE_LIMIT_MAX_FAILURES == 2

\* The refresh cooldown reads the clock in half seconds and is scaled to one
\* second (the source has 5 minutes); at most two starters are kept (the
\* source has 6) and a preview has at most four characters (the source has
\* 80).
TicksPerSecond == 2
STARTER_COOLDOWN_MINUTES == 1
STARTER_COUNT == 2
STARTER_PREVIEW_LENGTH == 4
CHAT_HISTORY_LIMIT == 20

\* the default of get_messages' limit parameter (100 rows), scaled to the
\* number of messages the model stores
GET_MESSAGES_DEFAULT_LIMIT == 3

\* SQL NULL / Python None; a present optional value v is <<v>>
NULL == <<>>

(***************************************************************************)
(* Character-level string helpers: str.strip(), str.lower(), USERNAME_RE.  *)
(***************************************************************************)
Whitespace == {" ", "\t", "\n"}

LowerChar(c) ==
    CASE c = "A" -> "a" [] c = "B" -> "b" [] c = "C" -> "c" [] c = "D" -> "d"
      [] c = "E" -> "e" [] c = "F" -> "f" [] c = "G" -> "g" [] c = "H" -> "h"
      [] c = "I" -> "i" [] c = "J" -> "j" [] c = "K" -> "k" [] c = "L" -> "l"
      [] c = "M" -> "m" [] c = "N" -> "n" [] c = "O" -> "o" [] c = "P" -> "p"
      [] c = "Q" -> "q" [] c = "R" -> "r" [] c = "S" -> "s" [] c = "T" -> "t"
      [] c = "U" -> "u" [] c = "V" -> "v" [] c = "W" -> "w" [] c = "X" -> "x"
      [] c = "Y" -> "y" [] c = "Z" -> "z" [] OTHER -> c

RECURSIVE LStrip(_)
LStrip(s) ==
    IF s # <<>> /\ Head(s) \in Whitespace THEN LStrip(Tail(s)) ELSE s

RECURSIVE RStrip(_)
RStrip(s) ==
    IF s # <<>> /\ s[Len(s)] \in Whitespace
    THEN RStrip(SubSeq(s, 1, Len(s) - 1))
    ELSE s

Strip(s) == RStrip(LStrip(s))

Lower(s) == [i \in 1..Len(s) |-> LowerChar(s[i])]

UsernameChars ==
    {"a", "b", "c", "d", "e", "f", "g", "h", "i", "j", "k", "l", "m",
     "n", "o", "p", "q", "r", "s", "t", "u", "v", "w", "x", "y", "z",
     "0", "1", "2", "3", "4", "5", "6", "7", "8", "9", "_"}

\* mutant: the pattern without its lower bound, ^[a-z0-9_]{0,24}$
USERNAME_RE_NoMinLength(s) ==
    /\ Len(s) <= 24
    /\ \A i \in 1..Len(s) : s[i] \in UsernameChars

\* USERNAME_RE.match(s), on a string without a trailing newline
USERNAME_RE(s) ==
    /\ Len(s) >= 3
    /\ Len(s) <= 24
    /\ \A i \in 1..Len(s) : s[i] \in UsernameChars

\* mutant: trimmed but not lower-cased
normalize_username_NoLower(username) == Strip(username)

normalize_username(username) == Lower(Strip(username))

\* sha256 of the stripped code, prefixed; the digest is collision-free
hash_invite_code(invite_code) == <<"sha256$", Strip(invite_code)>>

\* sha256 of the token; the digest is collision-free
hash_token(token) == <<"sha256", token>>

\* a salted scrypt record; the stored hash determines the password
hash_password(password) == <<"scrypt", password>>

\* mutant: the comparison with the stored hash is skipped
invite_code_matches_Always(invite_code, invite_hash) == TRUE

\* hmac.compare_digest(_hash_invite_code(payload.invite_code), invite_hash)
invite_code_matches(invite_code, invite_hash) ==
    hash_invite_code(invite_code) = invite_hash

verify_password(password, stored_hash) ==
    /\ stored_hash[1] = "scrypt"
    /\ stored_hash[2] = password

(***************************************************************************)
(* Inputs of the requests.                                                 *)
(***************************************************************************)
IPs == {"ip1", "ip2"}

Ali == <<"a", "l", "i">>
AliMixed == <<" ", "A", "l", "I", " ">>
Bob == <<"b", "o", "b">>
TooShort == <<"a", "l">>
BadChar == <<"a", "-", "i">>
RawUsernames == {Ali, AliMixed, Bob, TooShort, BadChar}

GoodPw == <<"s", "u", "p", "e", "r", "s", "e", "c", "u", "1">>
OtherPw == <<"w", "r", "o", "n", "g", "p", "a", "s", "s", "w", "d">>
ShortPw == <<"s", "h", "o", "r", "t", "p", "w", "d", "1">>
Passwords == {GoodPw, OtherPw, ShortPw}

InviteCode == <<"b", "e", "t", "a">>
InviteCodePadded == <<" ", "b", "e", "t", "a", "\n">>
WrongCode == <<"w", "r", "o", "n", "g">>
InviteCodes == {InviteCode, InviteCodePadded, WrongCode}

VARIABLES
    now,                  \* datetime.utcnow()
    users,                \* table users: id -> row
    auth_sessions,        \* table auth_sessions: id -> row
    beta_invite,          \* beta_settings[global_invite_code_hash], or NULL
    AUTH_FAILURES_BY_IP,  \* the in-memory failure map: ip -> list of times
    conversations,        \* table conversations: id -> row
    messages,             \* table messages: the rows in id order
    message_translations, \* table message_translations: set of rows
    conversation_starters, \* table conversation_starters: committed rows
    refresh_log,          \* table conversation_starter_refresh_log: ip -> time
    uuids_issued,         \* how many starter ids uuid4() has produced
    refresh_txn,          \* the refresh between BEGIN and its response: its
                          \* request, rows to insert, position, and the rows
                          \* its connection sees; NULL when there is none
    pending,              \* the requests suspended at an await, oldest first
    auth_inflight,        \* the GET /api/me between its session lookup and
                          \* its response: cookie, session, expiry to
                          \* write, position; NULL when there is none
    resp,                 \* the request served last and its response
    failed_since_ok       \* history: per ip, the times of the failed (401) auth
                          \* attempts since its last successful one (the last
                          \* AUTH_RATE_LIMIT_MAX_FAILURES of them)

vars ==
    <<now, users, auth_sessions, beta_invite, AUTH_FAILURES_BY_IP,
      conversations, messages, message_translations,
      conversation_starters, refresh_log, uuids_issued, refresh_txn,
      auth_inflight, pending, resp,
      failed_since_ok>>

authVars == <<users, auth_sessions, beta_invite, AUTH_FAILURES_BY_IP>>
chatVars == <<conversations, messages>>
starterVars ==
    <<conversation_starters, refresh_log, uuids_issued, refresh_txn>>

(***************************************************************************)
(* db.py: users and auth_sessions.  The columns no handler reads back      *)
(* (display_name, created_at, ip_address, user_agent) are left out.  An    *)
(* optional column holds NULL or <<value>>.                                *)
(***************************************************************************)
\* SELECT * FROM users WHERE username = ? LIMIT 1 (username is UNIQUE)
get_user_by_username(U, username) ==
    LET found == {id \in DOMAIN U : U[id].username = username}
    IN IF found = {} THEN NULL ELSE <<CHOOSE id \in found : TRUE>>

create_user(U, user_id, username, password_hash, t) ==
    [id \in DOMAIN U \cup {user_id} |->
        IF id = user_id
        THEN [username |-> username, password_hash |-> password_hash,
              preferred_primary_lang |-> NULL,
              preferred_secondary_lang |-> NULL,
              last_seen_at |-> t]
        ELSE U[id]]

touch_user(U, user_id, t) ==
    [id \in DOMAIN U |->
        IF id = user_id THEN [U[id] EXCEPT !.last_seen_at = t] ELSE U[id]]

create_auth_session(S, session_id, user_id, token_hash, expires_at) ==
    [id \in DOMAIN S \cup {session_id} |->
        IF id = session_id
        THEN [user_id |-> user_id, token_hash |-> token_hash,
              expires_at |-> expires_at, revoked_at |-> NULL]
        ELSE S[id]]

\* mutant: the lookup without "AND s.revoked_at IS NULL"
get_active_session_IgnoringRevoked(S, U, token_hash, t) ==
    LET found == {id \in DOMAIN S :
                    /\ S[id].token_hash = token_hash
                    /\ S[id].user_id \in DOMAIN U
                    /\ S[id].expires_at > t}
    IN IF found = {} THEN NULL ELSE <<CHOOSE id \in found : TRUE>>

\* the session row joined with its user, non-revoked and unexpired
get_active_session_by_token_hash(S, U, token_hash, t) ==
    LET found == {id \in DOMAIN S :
                    /\ S[id].token_hash = token_hash
                    /\ S[id].user_id \in DOMAIN U
                    /\ S[id].revoked_at = NULL
                    /\ S[id].expires_at > t}
    IN IF found = {} THEN NULL ELSE <<CHOOSE id \in found : TRUE>>

\* mutant: the UPDATE without "AND revoked_at IS NULL"
extend_auth_session_IgnoringRevoked(S, token_hash, expires_at) ==
    [id \in DOMAIN S |->
        IF S[id].token_hash = token_hash
        THEN [S[id] EXCEPT !.expires_at = expires_at]
        ELSE S[id]]

extend_auth_session(S, token_hash, expires_at) ==
    [id \in DOMAIN S |->
        IF S[id].token_hash = token_hash /\ S[id].revoked_at = NULL
        THEN [S[id] EXCEPT !.expires_at = expires_at]
        ELSE S[id]]

\* mutant: revokes every session of the token's user
revoke_auth_session_AllOfUser(S, token_hash, t) ==
    [id \in DOMAIN S |->
        IF /\ \E own \in DOMAIN S :
                  /\ S[own].token_hash = token_hash
                  /\ S[own].user_id = S[id].user_id
           /\ S[id].revoked_at = NULL
        THEN [S[id] EXCEPT !.revoked_at = <<t>>]
        ELSE S[id]]

revoke_auth_session(S, token_hash, t) ==
    [id \in DOMAIN S |->
        IF S[id].token_hash = token_hash /\ S[id].revoked_at = NULL
        THEN [S[id] EXCEPT !.revoked_at = <<t>>]
        ELSE S[id]]

(***************************************************************************)
(* main.py: the per-IP failure throttle.                                   *)
(***************************************************************************)
session_expiry_iso(t) == t + SESSION_TTL_DAYS

\* AUTH_FAILURES_BY_IP.get(ip_address, [])
failures_of(F, ip_address) ==
    IF ip_address \in DOMAIN F THEN F[ip_address] ELSE <<>>

\* mutant: a window one tick too long
IsRecent_LongerWindow(ts, t) == ts >= t - AUTH_RATE_LIMIT_WINDOW_SECONDS - 1

IsRecent(ts, t) == ts >= t - AUTH_RATE_LIMIT_WINDOW_SECONDS

prune_failures(F, ip_address, t) ==
    [ip \in DOMAIN F \cup {ip_address} |->
        IF ip = ip_address
        THEN SelectSeq(failures_of(F, ip_address), LAMBDA ts : IsRecent(ts, t))
        ELSE F[ip]]

\* TRUE when _check_auth_rate_limit raises 429 (it has pruned the list)
check_auth_rate_limit(F, ip_address, t) ==
    Len(prune_failures(F, ip_address, t)[ip_address])
        >= AUTH_RATE_LIMIT_MAX_FAILURES

\* mutant: the failure is not appended
record_auth_failure_NoAppend(F, ip_address, t) ==
    prune_failures(F, ip_address, t)

record_auth_failure(F, ip_address, t) ==
    LET recent == prune_failures(F, ip_address, t)
    IN [recent EXCEPT ![ip_address] = Append(@, t)]

\* mutant: the history is kept
clear_auth_failures_Kept(F, ip_address) == F

clear_auth_failures(F, ip_address) ==
    [ip \in DOMAIN F \ {ip_address} |-> F[ip]]

(***************************************************************************)
(* Fresh identifiers: uuid4() ids and secrets.token_urlsafe() tokens are   *)
(* values never produced before.                                           *)
(***************************************************************************)
new_user_id == Cardinality(DOMAIN users) + 1
new_session_id == Cardinality(DOMAIN auth_sessions) + 1
new_session_token == Cardinality(DOMAIN auth_sessions) + 1

\* the cookies a client can send: none, or any token value
Cookies == {NULL} \cup {<<tok>> : tok \in 1..(MaxSessions + 1)}

\* the request served last and its response; seq tells two equal ones apart
Respond(op, status, req, out) ==
    resp' = [seq |-> 1 - resp.seq, op |-> op, status |-> status,
             req |-> req, out |-> out]

(***************************************************************************)
(* main.py: authentication of a request.                                   *)
(***************************************************************************)
\* _load_authenticated_session: the active session id of the cookie, or
\* NULL where the code raises 401
\* mutant: the lookup compares expires_at with the epoch, not with now
load_authenticated_session_NoExpiry(cookie) ==
    IF cookie = NULL
    THEN NULL
    ELSE get_active_session_by_token_hash(
             auth_sessions, users, hash_token(cookie[1]), 0)

load_authenticated_session(cookie) ==
    IF cookie = NULL
    THEN NULL
    ELSE get_active_session_by_token_hash(
             auth_sessions, users, hash_token(cookie[1]), now)

\* _refresh_session_activity, on the tables
refresh_sessions(cookie) ==
    extend_auth_session(
        auth_sessions, hash_token(cookie[1]), session_expiry_iso(now))

refresh_users(user_id) == touch_user(users, user_id, now)

(***************************************************************************)
(* The history of failed auth attempts, kept beside the program: a 401     *)
(* from register or login adds its time, a 200 starts the history anew.    *)
(***************************************************************************)
LastFailures(s) ==
    IF Len(s) > AUTH_RATE_LIMIT_MAX_FAILURES
    THEN SubSeq(s, Len(s) - AUTH_RATE_LIMIT_MAX_FAILURES + 1, Len(s))
    ELSE s

ObserveAuth(ip_address) ==
    failed_since_ok' =
        [failed_since_ok EXCEPT ![ip_address] =
            IF resp'.status = 401 THEN LastFailures(Append(@, now))
            ELSE IF resp'.status = 200 THEN <<>>
            ELSE @]

(***************************************************************************)
(* POST /api/auth/register                                                 *)
(***************************************************************************)
register(ip_address, raw_username, password, invite_code) ==
    LET req == [ip |-> ip_address, username |-> raw_username,
                password |-> password, invite_code |-> invite_code]
        pruned == prune_failures(AUTH_FAILURES_BY_IP, ip_address, now)
        username == normalize_username(raw_username)
        user_id == new_user_id
        token == new_session_token
    IN
    IF check_auth_rate_limit(AUTH_FAILURES_BY_IP, ip_address, now) THEN
        /\ Respond("register", 429, req, NULL)
        /\ AUTH_FAILURES_BY_IP' = pruned
        /\ UNCHANGED <<users, auth_sessions>>
    ELSE IF beta_invite = NULL THEN
        /\ Respond("register", 503, req, NULL)
        /\ AUTH_FAILURES_BY_IP' = pruned
        /\ UNCHANGED <<users, auth_sessions>>
    ELSE IF ~invite_code_matches(invite_code, beta_invite[1]) THEN
        /\ Respond("register", 401, req, NULL)
        /\ AUTH_FAILURES_BY_IP' = record_auth_failure(pruned, ip_address, now)
        /\ UNCHANGED <<users, auth_sessions>>
    ELSE IF ~USERNAME_RE(username) THEN
        /\ Respond("register", 422, req, NULL)
        /\ AUTH_FAILURES_BY_IP' = pruned
        /\ UNCHANGED <<users, auth_sessions>>
    ELSE IF Len(password) < PASSWORD_MIN_LENGTH THEN
        /\ Respond("register", 422, req, NULL)
        /\ AUTH_FAILURES_BY_IP' = pruned
        /\ UNCHANGED <<users, auth_sessions>>
    ELSE IF get_user_by_username(users, username) # NULL THEN
        /\ Respond("register", 409, req, NULL)
        /\ AUTH_FAILURES_BY_IP' = pruned
        /\ UNCHANGED <<users, auth_sessions>>
    ELSE
        /\ Cardinality(DOMAIN auth_sessions) < MaxSessions
        /\ users' = create_user(users, user_id, username,
                                hash_password(password), now)
        /\ auth_sessions' = create_auth_session(
               auth_sessions, new_session_id, user_id, hash_token(token),
               session_expiry_iso(now))
        /\ AUTH_FAILURES_BY_IP' = clear_auth_failures(pruned, ip_address)
        /\ Respond("register", 200, req,
                   [cookie |-> <<token>>, user_id |-> user_id])

Register(ips, usernames, passwords, invite_codes) ==
    /\ \E ip_address \in ips, raw_username \in usernames,
          password \in passwords, invite_code \in invite_codes :
           /\ register(ip_address, raw_username, password, invite_code)
           /\ ObserveAuth(ip_address)
    /\ UNCHANGED <<now, pending, auth_inflight,
                   beta_invite, conversations, messages,
                   message_translations, starterVars>>

(***************************************************************************)
(* POST /api/auth/login                                                    *)
(***************************************************************************)
\* mutant: an unknown username is answered 404 and not counted
login_result_UnknownUser404(ip_address, raw_username, password) ==
    LET pruned == prune_failures(AUTH_FAILURES_BY_IP, ip_address, now)
        username == normalize_username(raw_username)
        user == get_user_by_username(users, username)
        token == new_session_token
        failed(status, detail, F) ==
            [status |-> status, out |-> [detail |-> detail], failures |-> F,
             sessions |-> auth_sessions, users |-> users]
    IN
    IF check_auth_rate_limit(AUTH_FAILURES_BY_IP, ip_address, now) THEN
        failed(429, "Too many authentication attempts. Please try again later.",
               pruned)
    ELSE IF ~USERNAME_RE(username) THEN
        failed(401, "Invalid credentials.",
               record_auth_failure(pruned, ip_address, now))
    ELSE IF user = NULL THEN
        failed(404, "User not found.", pruned)
    ELSE IF ~verify_password(password, users[user[1]].password_hash) THEN
        failed(401, "Invalid credentials.",
               record_auth_failure(pruned, ip_address, now))
    ELSE
        [status |-> 200,
         out |-> [cookie |-> <<token>>, user_id |-> user[1]],
         failures |-> clear_auth_failures(pruned, ip_address),
         sessions |-> create_auth_session(
             auth_sessions, new_session_id, user[1], hash_token(token),
             session_expiry_iso(now)),
         users |-> touch_user(users, user[1], now)]

\* what login answers and what it leaves in the failure map and the tables
login_result(ip_address, raw_username, password) ==
    LET pruned == prune_failures(AUTH_FAILURES_BY_IP, ip_address, now)
        username == normalize_username(raw_username)
        user == get_user_by_username(users, username)
        token == new_session_token
        failed(status, detail, F) ==
            [status |-> status, out |-> [detail |-> detail], failures |-> F,
             sessions |-> auth_sessions, users |-> users]
    IN
    IF check_auth_rate_limit(AUTH_FAILURES_BY_IP, ip_address, now) THEN
        failed(429, "Too many authentication attempts. Please try again later.",
               pruned)
    ELSE IF ~USERNAME_RE(username) THEN
        failed(401, "Invalid credentials.",
               record_auth_failure(pruned, ip_address, now))
    ELSE IF \/ user = NULL
            \/ ~verify_password(password, users[user[1]].password_hash) THEN
        failed(401, "Invalid credentials.",
               record_auth_failure(pruned, ip_address, now))
    ELSE
        [status |-> 200,
         out |-> [cookie |-> <<token>>, user_id |-> user[1]],
         failures |-> clear_auth_failures(pruned, ip_address),
         sessions |-> create_auth_session(
             auth_sessions, new_session_id, user[1], hash_token(token),
             session_expiry_iso(now)),
         users |-> touch_user(users, user[1], now)]

login(ip_address, raw_username, password) ==
    LET result == login_result(ip_address, raw_username, password)
    IN /\ result.status = 200
          => Cardinality(DOMAIN auth_sessions) < MaxSessions
       /\ Respond("login", result.status,
                  [ip |-> ip_address, username |-> raw_username,
                   password |-> password],
                  result.out)
       /\ AUTH_FAILURES_BY_IP' = result.failures
       /\ auth_sessions' = result.sessions
       /\ users' = result.users

Login(ips, usernames, passwords) ==
    /\ \E ip_address \in ips, raw_username \in usernames,
          password \in passwords :
           /\ login(ip_address, raw_username, password)
           /\ ObserveAuth(ip_address)
    /\ UNCHANGED <<now, pending, auth_inflight,
                   beta_invite, conversations, messages,
                   message_translations, starterVars>>

(***************************************************************************)
(* POST /api/auth/logout                                                   *)
(***************************************************************************)
logout(cookie) ==
    /\ auth_sessions' =
           IF cookie # NULL
           THEN revoke_auth_session(auth_sessions, hash_token(cookie[1]), now)
           ELSE auth_sessions
    /\ Respond("logout", 200, [cookie |-> cookie], NULL)

Logout ==
    /\ \E cookie \in Cookies : logout(cookie)
    /\ UNCHANGED <<now, pending, auth_inflight,
                   users, beta_invite, AUTH_FAILURES_BY_IP,
                   conversations, messages, message_translations,
                   failed_since_ok, starterVars>>

(***************************************************************************)
(* GET /api/me, behind require_authenticated_user                          *)
(***************************************************************************)
get_me(cookie) ==
    LET session == load_authenticated_session(cookie)
    IN IF session = NULL THEN
           /\ Respond("get_me", 401, [cookie |-> cookie], NULL)
           /\ UNCHANGED <<users, auth_sessions>>
       ELSE
           /\ auth_sessions' = refresh_sessions(cookie)
           /\ users' = refresh_users(auth_sessions[session[1]].user_id)
           /\ Respond("get_me", 200, [cookie |-> cookie],
                      [user_id |-> auth_sessions[session[1]].user_id])

GetMe ==
    /\ \E cookie \in Cookies : get_me(cookie)
    /\ UNCHANGED <<now, pending, auth_inflight,
                   beta_invite, AUTH_FAILURES_BY_IP,
                   conversations, messages, message_translations,
                   failed_since_ok, starterVars>>

(***************************************************************************)
(* PATCH /api/me, behind require_authenticated_user: the language          *)
(* preferences (display_name is not modelled)                              *)
(***************************************************************************)
\* the characters of the language values used
LanguageChars ==
    [s \in {"", "en", "es", " EN", "Es "} |->
        CASE s = "" -> <<>>
          [] s = "en" -> <<"e", "n">>
          [] s = "es" -> <<"e", "s">>
          [] s = " EN" -> <<" ", "E", "N">>
          [] s = "Es " -> <<"E", "s", " ">>]

\* _normalize_language: value.strip().lower()
normalize_language(value) ==
    CHOOSE s \in DOMAIN LanguageChars :
        LanguageChars[s] = Lower(Strip(LanguageChars[value]))

\* db.update_user_profile: a field that is None is left as it is
update_user_profile(U, user_id, preferred_primary_lang, preferred_secondary_lang) ==
    [id \in DOMAIN U |->
        IF id = user_id
        THEN [U[id] EXCEPT
                 !.preferred_primary_lang =
                     IF preferred_primary_lang # NULL
                     THEN preferred_primary_lang ELSE @,
                 !.preferred_secondary_lang =
                     IF preferred_secondary_lang # NULL
                     THEN preferred_secondary_lang ELSE @]
        ELSE U[id]]

update_me(cookie, payload) ==
    LET session == load_authenticated_session(cookie)
        user_id == auth_sessions[session[1]].user_id
        req == [cookie |-> cookie, payload |-> payload]
        normalized(v) == IF v # NULL THEN <<normalize_language(v[1])>> ELSE v
    IN IF session = NULL THEN
           /\ Respond("update_me", 401, req, NULL)
           /\ UNCHANGED <<users, auth_sessions>>
       ELSE
           /\ auth_sessions' = refresh_sessions(cookie)
           /\ users' = update_user_profile(
                  refresh_users(user_id), user_id,
                  normalized(payload.preferred_primary_lang),
                  normalized(payload.preferred_secondary_lang))
           /\ Respond("update_me", 200, req,
                  [preferred_primary_lang |->
                       users'[user_id].preferred_primary_lang,
                   preferred_secondary_lang |->
                       users'[user_id].preferred_secondary_lang])

UpdateMe(cookies, payloads) ==
    /\ \E cookie \in cookies, payload \in payloads :
           update_me(cookie, payload)
    /\ UNCHANGED <<now, pending, auth_inflight, beta_invite, AUTH_FAILURES_BY_IP,
                   chatVars, message_translations, starterVars,
                   failed_since_ok>>

(***************************************************************************)
(* db.py: conversations and messages.                                      *)
(***************************************************************************)
create_conversation(C, conversation_id, primary_lang, secondary_lang, mode, user_id, t) ==
    [id \in DOMAIN C \cup {conversation_id} |->
        IF id = conversation_id
        THEN [primary_lang |-> primary_lang,
              secondary_lang |-> secondary_lang, mode |-> mode,
              created_at |-> t, user_id |-> user_id]
        ELSE C[id]]

\* mutant: the lookup by id alone, whoever asks
get_conversation_AnyOwner(C, conversation_id, user_id) ==
    IF conversation_id \in DOMAIN C THEN <<conversation_id>> ELSE NULL

\* WHERE id = ? when user_id is None, WHERE id = ? AND user_id = ? otherwise
get_conversation(C, conversation_id, user_id) ==
    LET found == {id \in DOMAIN C :
                    /\ id = conversation_id
                    /\ user_id = NULL \/ C[id].user_id = user_id}
    IN IF found = {} THEN NULL ELSE <<CHOOSE id \in found : TRUE>>

\* messages.id is AUTOINCREMENT and no row is ever deleted
insert_message(M, conversation_id, role, lang, text, t) ==
    Append(M, [id |-> Len(M) + 1, conversation_id |-> conversation_id,
               role |-> role, lang |-> lang, text |-> text,
               created_at |-> t])

\* WHERE conversation_id = ? ORDER BY created_at ASC LIMIT ?; rows are
\* inserted with the clock's current reading, so id order is created_at
\* order
get_messages(M, conversation_id, limit) ==
    LET rows == SelectSeq(M, LAMBDA m : m.conversation_id = conversation_id)
    IN IF Len(rows) > limit THEN SubSeq(rows, 1, limit) ELSE rows

(***************************************************************************)
(* POST /api/chat, behind require_authenticated_user                       *)
(***************************************************************************)
\* Python truth of an optional string: neither None nor ""
Truthy(v) == v # NULL /\ v[1] # ""

\* a or b
Or(a, b) == IF Truthy(a) THEN a ELSE b

\* mutant: the last user-role entry is taken even when its text is blank
latest_user_message_LastEntryOnly(msgs) ==
    LET hits == {i \in 1..Len(msgs) : msgs[i].role = "user"}
    IN IF hits = {} THEN NULL
       ELSE <<Strip(msgs[CHOOSE i \in hits : \A j \in hits : j <= i].text)>>

\* the text of the last user-role entry whose stripped text is not empty,
\* or NULL (the loop of chat over reversed(payload.messages))
latest_user_message(msgs) ==
    LET hits == {i \in 1..Len(msgs) :
                    msgs[i].role = "user" /\ Strip(msgs[i].text) # <<>>}
    IN IF hits = {} THEN NULL
       ELSE <<Strip(msgs[CHOOSE i \in hits : \A j \in hits : j <= i].text)>>

Apology == <<"Sorry something went wrong. Let's try again!">>

\* mutant: only a call that raises gets the apology
assistant_text_of_BlankKept(reply) ==
    IF reply = NULL THEN Apology ELSE reply[1]

\* the reply of llm.generate_reply is NULL when the call raises
assistant_text_of(reply) ==
    IF reply = NULL \/ Strip(reply[1]) = <<>> THEN Apology ELSE reply[1]

chat_primary_lang(payload, user) ==
    IF payload.is_primary_lang
    THEN Or(payload.primary_lang,
            Or(user.preferred_primary_lang, <<payload.language>>))
    ELSE Or(payload.primary_lang, Or(user.preferred_primary_lang, <<"en">>))

\* mutant: without the test for equal languages
chat_secondary_lang_NoFallback(payload, user) ==
    IF payload.is_primary_lang
    THEN Or(payload.secondary_lang,
            Or(user.preferred_secondary_lang, <<"en">>))
    ELSE Or(payload.secondary_lang,
            Or(user.preferred_secondary_lang, <<payload.language>>))

chat_secondary_lang(payload, user) ==
    LET primary_lang == chat_primary_lang(payload, user)
        secondary_lang ==
            IF payload.is_primary_lang
            THEN Or(payload.secondary_lang,
                    Or(user.preferred_secondary_lang, <<"en">>))
            ELSE Or(payload.secondary_lang,
                    Or(user.preferred_secondary_lang, <<payload.language>>))
    IN IF primary_lang = secondary_lang
       THEN (IF primary_lang # <<"en">> THEN <<"en">> ELSE <<"es">>)
       ELSE secondary_lang

new_conversation_id == Cardinality(DOMAIN conversations) + 1

\* payload.messages[-20:]
messages_to_use(msgs) ==
    IF Len(msgs) > CHAT_HISTORY_LIMIT
    THEN SubSeq(msgs, Len(msgs) - CHAT_HISTORY_LIMIT + 1, Len(msgs))
    ELSE msgs

\* the rows of messages after the turn: the user message if there is one,
\* then the assistant message
chat_turn(M, conversation_id, payload, reply) ==
    LET latest == latest_user_message(payload.messages)
        with_user ==
            IF latest # NULL /\ latest[1] # <<>>
            THEN insert_message(M, conversation_id, "user",
                                payload.language, latest[1], now)
            ELSE M
    IN insert_message(with_user, conversation_id, "assistant",
                      payload.language, assistant_text_of(reply), now)

chat(cookie, payload, reply) ==
    LET req == [cookie |-> cookie, payload |-> payload, reply |-> reply]
        session == load_authenticated_session(cookie)
        user_id == auth_sessions[session[1]].user_id
        conversation_id ==
            IF payload.conversation_id # NULL
            THEN payload.conversation_id[1]
            ELSE new_conversation_id
        \* the response body, and the calls of llm.generate_reply made
        out == [conversation_id |-> conversation_id,
                assistant_text |-> assistant_text_of(reply),
                assistant_lang |-> payload.language,
                llm_calls |-> <<messages_to_use(payload.messages)>>]
    IN
    IF session = NULL THEN
        /\ Respond("chat", 401, req, NULL)
        /\ UNCHANGED <<users, auth_sessions, conversations, messages>>
    ELSE
        /\ auth_sessions' = refresh_sessions(cookie)
        /\ users' = refresh_users(user_id)
        /\ IF payload.conversation_id # NULL THEN
               IF get_conversation(conversations, conversation_id,
                                   <<user_id>>) = NULL THEN
                   /\ Respond("chat", 404, req, [llm_calls |-> <<>>])
                   /\ UNCHANGED <<conversations, messages>>
               ELSE
                   /\ Len(messages) + 2 <= MaxMessages
                   /\ messages' = chat_turn(messages, conversation_id,
                                            payload, reply)
                   /\ Respond("chat", 200, req, out)
                   /\ UNCHANGED conversations
           ELSE
               /\ Cardinality(DOMAIN conversations) < MaxConversations
               /\ Len(messages) + 2 <= MaxMessages
               /\ conversations' = create_conversation(
                      conversations, conversation_id,
                      chat_primary_lang(payload, users[user_id])[1],
                      chat_secondary_lang(payload, users[user_id])[1],
                      payload.mode, <<user_id>>, now)
               /\ messages' = chat_turn(messages, conversation_id,
                                        payload, reply)
               /\ Respond("chat", 200, req, out)

ConversationIds == {NULL} \cup {<<id>> : id \in 1..MaxConversations}

Chat(cookies, payloads, replies) ==
    /\ \E cookie \in cookies, payload \in payloads, reply \in replies :
           chat(cookie, payload, reply)
    /\ UNCHANGED <<now, pending, auth_inflight,
                   beta_invite, AUTH_FAILURES_BY_IP,
                   message_translations, failed_since_ok, starterVars>>

(***************************************************************************)
(* GET /api/conversations/{conversation_id}                                *)
(***************************************************************************)
get_conversation_history(cookie, conversation_id) ==
    LET req == [cookie |-> cookie, conversation_id |-> conversation_id]
        session == load_authenticated_session(cookie)
        user_id == auth_sessions[session[1]].user_id
        conversation ==
            get_conversation(conversations, conversation_id, <<user_id>>)
    IN
    IF session = NULL THEN
        /\ Respond("get_conversation_history", 401, req, NULL)
        /\ UNCHANGED <<users, auth_sessions>>
    ELSE
        /\ auth_sessions' = refresh_sessions(cookie)
        /\ users' = refresh_users(user_id)
        /\ IF conversation = NULL
           THEN Respond("get_conversation_history", 404, req, NULL)
           ELSE Respond("get_conversation_history", 200, req,
                    [conversation_id |-> conversation[1],
                     primary_lang |->
                         conversations[conversation[1]].primary_lang,
                     secondary_lang |->
                         conversations[conversation[1]].secondary_lang,
                     mode |-> conversations[conversation[1]].mode,
                     messages |->
                         get_messages(messages, conversation_id,
                                      GET_MESSAGES_DEFAULT_LIMIT)])

GetConversationHistory(cookies) ==
    /\ \E cookie \in cookies, conversation_id \in 1..MaxConversations :
           get_conversation_history(cookie, conversation_id)
    /\ UNCHANGED <<now, pending, auth_inflight,
                   beta_invite, AUTH_FAILURES_BY_IP, conversations,
                   messages, message_translations, failed_since_ok,
                   starterVars>>

(***************************************************************************)
(* db.py: message_translations, the translation cache.  Its rows are       *)
(* (text, translated_text, created_at) with PRIMARY KEY (text,             *)
(* translated_text).                                                       *)
(***************************************************************************)
\* INSERT OR REPLACE: the row with the same primary key, if any, is replaced
upsert_translation(T, text, translated_text, t) ==
    {r \in T : ~(r.text = text /\ r.translated_text = translated_text)}
        \cup {[text |-> text, translated_text |-> translated_text,
               created_at |-> t]}

\* mutant: only the row original -> translated is written
save_translation_OneDirection(T, message, translated_text, t) ==
    upsert_translation(T, message, translated_text, t)

\* both rows, then one commit
save_translation(T, message, translated_text, t) ==
    upsert_translation(
        upsert_translation(T, message, translated_text, t),
        translated_text, message, t)

\* a call of db.save_translation, its arguments and its result
SaveTranslation(texts) ==
    /\ \E message \in texts, translated_text \in texts :
           /\ message_translations' =
                  save_translation(message_translations, message,
                                   translated_text, now)
           /\ Respond("save_translation", 0,
                      [message |-> message,
                       translated_text |-> translated_text], TRUE)
    /\ UNCHANGED <<now, pending, authVars, auth_inflight, chatVars,
                   failed_since_ok, starterVars>>

\* SELECT translated_text ... WHERE text = ? LIMIT 1 has no ORDER BY: the
\* set of the values it can return, {NULL} when no row matches
get_translation(T, message) ==
    LET rows == {r \in T : r.text = message}
    IN IF rows = {} THEN {NULL} ELSE {<<r.translated_text>> : r \in rows}

(***************************************************************************)
(* llm.py translate_text: each item is sent on its own with the prompt of  *)
(* the target language at temperature 0; the call raises when any item     *)
(* fails.  An answer comes back stripped, so it can be "".                 *)
(***************************************************************************)
\* the provider's answers in this model, per item and target language
LlmAnswer(item, target_lang) ==
    IF target_lang = "es"
    THEN CASE item = "hello" -> "hola"
           [] item = "bye" -> "adios"
           [] item = "new" -> "nuevo"
           [] OTHER -> item
    ELSE CASE item = "hola" -> "hi"
           [] item = "new" -> ""
           [] OTHER -> item

\* _translate_one: <<content>>, or NULL when the request for this item
\* raises (a status other than 200, a timeout, a malformed body)
translate_one(item, target_lang, failing) ==
    IF item \in failing THEN NULL ELSE <<LlmAnswer(item, target_lang)>>

\* asyncio.gather(*tasks) over the items: <<results>> in the order of text,
\* or NULL when one of the calls raises (the first exception is raised to
\* the caller)
translate_text(text, target_lang, failing) ==
    LET results ==
            [i \in 1..Len(text) |->
                translate_one(text[i], target_lang, failing)]
    IN IF \E i \in 1..Len(text) : results[i] = NULL
       THEN NULL
       ELSE <<[i \in 1..Len(text) |-> results[i][1]]>>

(***************************************************************************)
(* POST /api/translate, behind require_authenticated_user                  *)
(***************************************************************************)
\* mutant: the scan goes on after a miss and collects every later hit
cached_prefixes_NoBreak(T, text) ==
    LET hits == SelectSeq(text, LAMBDA item :
                    \E r \in T : r.text = item /\ r.translated_text # "")
    IN {[i \in 1..Len(hits) |->
            (CHOOSE r \in T : r.text = hits[i] /\ r.translated_text # "")
                .translated_text]}

\* the lists translated_text can hold after the loop over text: the cached
\* values of the items in front of the first one whose lookup is falsy
RECURSIVE cached_prefixes(_, _)
cached_prefixes(T, text) ==
    IF text = <<>> THEN {<<>>}
    ELSE UNION {IF Truthy(cached)
                THEN {<<cached[1]>> \o rest :
                         rest \in cached_prefixes(T, Tail(text))}
                ELSE {<<>>} :
                cached \in get_translation(T, Head(text))}

\* the loop of save_translation calls over the translated suffix
RECURSIVE save_translations(_, _, _, _)
save_translations(T, items, new_translations, t) ==
    IF items = <<>> THEN T
    ELSE save_translations(
             save_translation(T, Head(items), Head(new_translations), t),
             Tail(items), Tail(new_translations), t)

\* payload.text is a string or a list: [is_str, text] holds the list the
\* handler works on; the response unwraps it again for a string
translate_response(payload, translated_text) ==
    IF payload.is_str
    THEN [str |-> IF translated_text = <<>> THEN "" ELSE translated_text[1]]
    ELSE [list |-> translated_text]

translate(cookie, payload, failing) ==
    LET req == [cookie |-> cookie, payload |-> payload, failing |-> failing]
        session == load_authenticated_session(cookie)
        text == payload.text
    IN
    IF session = NULL THEN
        /\ Respond("translate", 401, req, NULL)
        /\ UNCHANGED <<users, auth_sessions, message_translations>>
    ELSE
        /\ auth_sessions' = refresh_sessions(cookie)
        /\ users' = refresh_users(auth_sessions[session[1]].user_id)
        /\ \E translated_text \in cached_prefixes(message_translations, text) :
            LET first_new_msg_index == Len(translated_text)
                text_to_translate ==
                    SubSeq(text, first_new_msg_index + 1, Len(text))
                new_translations ==
                    translate_text(text_to_translate, payload.target_lang,
                                   failing)
            IN
            IF first_new_msg_index >= Len(text) THEN
                /\ Respond("translate", 200, req,
                       [translated_text |->
                            translate_response(payload, translated_text),
                        llm_calls |-> <<>>])
                /\ UNCHANGED message_translations
            ELSE IF new_translations = NULL THEN
                /\ Respond("translate", 500, req,
                       [translated_text |-> NULL,
                        llm_calls |-> <<text_to_translate>>])
                /\ UNCHANGED message_translations
            ELSE
                /\ message_translations' = save_translations(
                       message_translations, text_to_translate,
                       new_translations[1], now)
                /\ Cardinality(message_translations') <= MaxCacheRows
                /\ Respond("translate", 200, req,
                       [translated_text |->
                            translate_response(payload,
                                translated_text \o new_translations[1]),
                        llm_calls |-> <<text_to_translate>>])

Translate(cookies, payloads, failings) ==
    /\ \E cookie \in cookies, payload \in payloads, failing \in failings :
           translate(cookie, payload, failing)
    /\ UNCHANGED <<now, pending, auth_inflight,
                   beta_invite, AUTH_FAILURES_BY_IP, conversations,
                   messages, failed_since_ok, starterVars>>

(***************************************************************************)
(* db.py: conversation_starters and conversation_starter_refresh_log.      *)
(* The metadata column, which no handler returns, is left out.             *)
(***************************************************************************)
\* BEGIN, DELETE FROM conversation_starters, one INSERT per starter, COMMIT:
\* the rows the table holds after the commit
replace_conversation_starters(starters) ==
    {starters[i] : i \in 1..Len(starters)}

\* the row that ORDER BY rank ASC, created_at DESC puts first
first_starter(S) ==
    CHOOSE r \in S :
        \A q \in S :
            \/ r.rank < q.rank
            \/ r.rank = q.rank /\ r.created_at >= q.created_at

\* SELECT ... FROM conversation_starters ORDER BY rank ASC, created_at DESC
RECURSIVE get_conversation_starters(_)
get_conversation_starters(S) ==
    IF S = {} THEN <<>>
    ELSE <<first_starter(S)>>
             \o get_conversation_starters(S \ {first_starter(S)})

\* the latest created_at of the rows, NULL for no rows
latest_time(rows) ==
    IF rows = <<>> THEN NULL
    ELSE <<CHOOSE t \in {rows[i].created_at : i \in 1..Len(rows)} :
              \A i \in 1..Len(rows) : rows[i].created_at <= t>>

get_last_refresh_time(L, ip_address) ==
    IF ip_address \in DOMAIN L THEN <<L[ip_address]>> ELSE NULL

\* INSERT ... ON CONFLICT(ip_address) DO UPDATE SET last_refresh_at
update_refresh_time(L, ip_address, t) ==
    [ip \in DOMAIN L \cup {ip_address} |->
        IF ip = ip_address THEN t ELSE L[ip]]

(***************************************************************************)
(* main.py: _fallback_starters_from_posts.  A post is a record with title  *)
(* and selftext (sequences of characters), score, subreddit and url.       *)
(***************************************************************************)
\* s[:n]
Take(s, n) == IF Len(s) > n THEN SubSeq(s, 1, n) ELSE s

\* s.replace("\n", " ")
NewlinesToSpaces(s) ==
    [i \in 1..Len(s) |-> IF s[i] = "\n" THEN " " ELSE s[i]]

\* sorted(posts, key=score, reverse=True): a stable sort, so posts of equal
\* score keep their order
RECURSIVE sorted_by_score(_)
sorted_by_score(posts) ==
    IF posts = <<>> THEN <<>>
    ELSE LET i == CHOOSE k \in 1..Len(posts) :
                    /\ \A j \in 1..Len(posts) : posts[j].score <= posts[k].score
                    /\ \A j \in 1..(k - 1) : posts[j].score < posts[k].score
         IN <<posts[i]>>
                \o sorted_by_score(
                       SubSeq(posts, 1, i - 1)
                           \o SubSeq(posts, i + 1, Len(posts)))

fallback_starter(post) ==
    LET title == Strip(post.title)
        subreddit == IF post.subreddit = "" THEN "reddit" ELSE post.subreddit
        summary_snippet ==
            NewlinesToSpaces(Take(Strip(post.selftext), 160))
        opener_body ==
            IF summary_snippet # <<>> THEN summary_snippet
            ELSE <<"It's trending on r/", subreddit, " right now.">>
    IN [title |-> Take(title, 60),
        assistant_opening |->
            <<"I just read on r/", subreddit, title, opener_body,
              "What do you think about it?">>,
        subreddit |-> subreddit,
        source_url |-> post.url]

\* the loop over the sorted posts; mutant: seen_titles is never consulted
RECURSIVE fallback_scan_NoSeen(_, _, _, _)
fallback_scan_NoSeen(sorted_posts, starters, seen_titles, desired_count) ==
    IF sorted_posts = <<>> \/ Len(starters) >= desired_count THEN starters
    ELSE LET post == Head(sorted_posts)
             title == Strip(post.title)
         IN IF title = <<>>
            THEN fallback_scan_NoSeen(Tail(sorted_posts), starters,
                                      seen_titles, desired_count)
            ELSE fallback_scan_NoSeen(Tail(sorted_posts),
                                      Append(starters, fallback_starter(post)),
                                      seen_titles \cup {Lower(title)},
                                      desired_count)

RECURSIVE fallback_scan(_, _, _, _)
fallback_scan(sorted_posts, starters, seen_titles, desired_count) ==
    IF sorted_posts = <<>> \/ Len(starters) >= desired_count THEN starters
    ELSE LET post == Head(sorted_posts)
             title == Strip(post.title)
         IN IF title = <<>> \/ Lower(title) \in seen_titles
            THEN fallback_scan(Tail(sorted_posts), starters, seen_titles,
                               desired_count)
            ELSE fallback_scan(Tail(sorted_posts),
                               Append(starters, fallback_starter(post)),
                               seen_titles \cup {Lower(title)},
                               desired_count)

fallback_starters_from_posts(posts, desired_count) ==
    IF posts = <<>> THEN <<>>
    ELSE fallback_scan(sorted_by_score(posts), <<>>, {}, desired_count)

\* a call of _fallback_starters_from_posts, its arguments and its result
FallbackStarters(post_lists, counts) ==
    /\ \E posts \in post_lists, desired_count \in counts :
           Respond("fallback_starters", 0,
                   [posts |-> posts, desired_count |-> desired_count],
                   [starters |->
                        fallback_starters_from_posts(posts, desired_count)])
    /\ UNCHANGED <<now, pending, authVars, auth_inflight, chatVars,
                   message_translations, failed_since_ok, starterVars>>

(***************************************************************************)
(* POST /api/conversation_starters/refresh, behind                         *)
(* require_authenticated_user.  The cooldown compares datetimes, and       *)
(* retry_after_seconds is int(remaining.total_seconds()): whole seconds,   *)
(* fractions dropped.                                                      *)
(***************************************************************************)
\* timedelta(minutes=STARTER_COOLDOWN_MINUTES), in clock ticks
cooldown_delta == STARTER_COOLDOWN_MINUTES * TicksPerSecond

\* cooldown_delta in the unit of retry_after_seconds
cooldown_seconds == cooldown_delta \div TicksPerSecond

\* mutant: the gate closes one tick early
in_cooldown_OneTickShort(last_refresh, t) ==
    last_refresh # NULL /\ t - last_refresh[1] < cooldown_delta - 1

\* last_refresh and now - last_refresh < cooldown_delta
in_cooldown(last_refresh, t) ==
    last_refresh # NULL /\ t - last_refresh[1] < cooldown_delta

\* int(remaining.total_seconds())
retry_after_seconds(last_refresh, t) ==
    (cooldown_delta - (t - last_refresh[1])) \div TicksPerSecond

\* the rows built from the generated starters
starters_payload_AlwaysLlm(starters, fallback_used, generated_at, first_id) ==
    [idx \in 1..Len(starters) |->
        [id |-> first_id + idx,
         title |-> starters[idx].title,
         opener |-> starters[idx].assistant_opening,
         source_url |-> starters[idx].source_url,
         subreddit |-> starters[idx].subreddit,
         rank |-> idx - 1,
         generated_by |-> "reddit_llm",
         created_at |-> generated_at]]

starters_payload(starters, fallback_used, generated_at, first_id) ==
    [idx \in 1..Len(starters) |->
        [id |-> first_id + idx,
         title |-> starters[idx].title,
         opener |-> starters[idx].assistant_opening,
         source_url |-> starters[idx].source_url,
         subreddit |-> starters[idx].subreddit,
         rank |-> idx - 1,
         generated_by |->
             IF fallback_used THEN "fallback_stub" ELSE "reddit_llm",
         created_at |-> generated_at]]

\* topics.fetch_multiple_subreddits: results holds, in the order of the
\* subreddits, what asyncio.gather(..., return_exceptions=True) returns for
\* each one, NULL for an exception and <<posts>> for a list; mutant: the
\* first exception ends the loop
RECURSIVE fetch_multiple_subreddits_StopAtFailure(_)
fetch_multiple_subreddits_StopAtFailure(results) ==
    IF results = <<>> \/ Head(results) = NULL THEN <<>>
    ELSE Head(results)[1]
           \o fetch_multiple_subreddits_StopAtFailure(Tail(results))

RECURSIVE fetch_multiple_subreddits(_)
fetch_multiple_subreddits(results) ==
    IF results = <<>> THEN <<>>
    ELSE (IF Head(results) = NULL THEN <<>> ELSE Head(results)[1])
           \o fetch_multiple_subreddits(Tail(results))

\* llm.generate_conversation_starters_from_posts, the loop over the parsed
\* entries: an entry whose stripped title or opening is empty is skipped
\* and the loop ends once desired_count entries are kept; mutant: the
\* loop never ends early
RECURSIVE sanitize_starters_NoLimit(_, _, _)
sanitize_starters_NoLimit(starters_raw, sanitized, desired_count) ==
    IF starters_raw = <<>> THEN sanitized
    ELSE LET entry == Head(starters_raw)
             title == Strip(entry.title)
             opening == Strip(entry.assistant_opening)
         IN IF title = <<>> \/ opening = <<>>
            THEN sanitize_starters_NoLimit(Tail(starters_raw), sanitized,
                                           desired_count)
            ELSE sanitize_starters_NoLimit(
                     Tail(starters_raw),
                     Append(sanitized,
                            [title |-> title, assistant_opening |-> opening,
                             subreddit |-> entry.subreddit,
                             source_url |-> entry.source_url]),
                     desired_count)

RECURSIVE sanitize_starters(_, _, _)
sanitize_starters(starters_raw, sanitized, desired_count) ==
    IF starters_raw = <<>> THEN sanitized
    ELSE LET entry == Head(starters_raw)
             title == Strip(entry.title)
             opening == Strip(entry.assistant_opening)
             kept == Append(sanitized,
                            [title |-> title, assistant_opening |-> opening,
                             subreddit |-> entry.subreddit,
                             source_url |-> entry.source_url])
         IN IF title = <<>> \/ opening = <<>>
            THEN sanitize_starters(Tail(starters_raw), sanitized,
                                   desired_count)
            ELSE IF Len(kept) >= desired_count THEN kept
            ELSE sanitize_starters(Tail(starters_raw), kept, desired_count)

\* starters_raw is NULL when the request or the parsing raises, else
\* <<entries>>; the result is NULL when the function raises, which it also
\* does when no entry is kept
generate_conversation_starters_from_posts(starters_raw, desired_count) ==
    IF starters_raw = NULL THEN NULL
    ELSE LET sanitized == sanitize_starters(starters_raw[1], <<>>,
                                            desired_count)
         IN IF sanitized = <<>> THEN NULL ELSE <<sanitized>>

\* reddit_posts is NULL when the fetch raises, else <<posts>>; llm_starters
\* is NULL when llm.generate_conversation_starters_from_posts raises, else
\* <<starters>>, a non-empty list of at most STARTER_COUNT starters
refresh_conversation_starters(cookie, ip_address, reddit_posts, llm_starters) ==
    LET req == [cookie |-> cookie, ip |-> ip_address,
                reddit_posts |-> reddit_posts, llm_starters |-> llm_starters]
        session == load_authenticated_session(cookie)
        last_refresh == get_last_refresh_time(refresh_log, ip_address)
        fallback_used == llm_starters = NULL
        starters_from_llm ==
            IF fallback_used
            THEN fallback_starters_from_posts(reddit_posts[1], STARTER_COUNT)
            ELSE llm_starters[1]
        payload == starters_payload(starters_from_llm, fallback_used, now,
                                    uuids_issued)
    IN
    IF session = NULL THEN
        /\ Respond("refresh", 401, req, NULL)
        /\ UNCHANGED <<users, auth_sessions, starterVars>>
    ELSE
        /\ auth_sessions' = refresh_sessions(cookie)
        /\ users' = refresh_users(auth_sessions[session[1]].user_id)
        /\ IF in_cooldown(last_refresh, now) THEN
               /\ Respond("refresh", 429, req,
                      [retry_after_seconds |->
                           retry_after_seconds(last_refresh, now)])
               /\ UNCHANGED starterVars
           ELSE IF reddit_posts = NULL \/ reddit_posts[1] = <<>> THEN
               /\ Respond("refresh", 502, req, NULL)
               /\ UNCHANGED starterVars
           ELSE IF fallback_used /\ starters_from_llm = <<>> THEN
               /\ Respond("refresh", 500, req, NULL)
               /\ UNCHANGED starterVars
           ELSE
               /\ conversation_starters' =
                      replace_conversation_starters(payload)
               /\ refresh_log' =
                      update_refresh_time(refresh_log, ip_address, now)
               /\ uuids_issued' = uuids_issued + Len(payload)
               /\ Respond("refresh", 200, req,
                      [count |-> Len(payload), generated_at |-> now])
               /\ UNCHANGED refresh_txn

Refresh(cookies, ips, feeds, llm_outcomes) ==
    /\ \E cookie \in cookies, ip_address \in ips, reddit_posts \in feeds,
          llm_starters \in llm_outcomes :
           refresh_conversation_starters(cookie, ip_address, reddit_posts,
                                         llm_starters)
    /\ UNCHANGED <<now, pending, auth_inflight,
                   beta_invite, AUTH_FAILURES_BY_IP, conversations,
                   messages, message_translations, failed_since_ok>>

(***************************************************************************)
(* GET /api/conversation_starters                                          *)
(***************************************************************************)
\* _build_preview
build_preview(text) ==
    LET stripped == Strip(text)
    IN IF Len(stripped) <= STARTER_PREVIEW_LENGTH THEN stripped
       ELSE RStrip(SubSeq(stripped, 1, STARTER_PREVIEW_LENGTH - 1))
                \o <<"...">>

starter_summaries(rows) ==
    [i \in 1..Len(rows) |->
        [id |-> rows[i].id, title |-> rows[i].title,
         preview |-> build_preview(rows[i].opener)]]

list_conversation_starters(cookie) ==
    LET req == [cookie |-> cookie]
        session == load_authenticated_session(cookie)
        rows == get_conversation_starters(conversation_starters)
    IN
    IF session = NULL THEN
        /\ Respond("list_starters", 401, req, NULL)
        /\ UNCHANGED <<users, auth_sessions>>
    ELSE
        /\ auth_sessions' = refresh_sessions(cookie)
        /\ users' = refresh_users(auth_sessions[session[1]].user_id)
        /\ Respond("list_starters", 200, req,
               [generated_at |-> latest_time(rows),
                starters |-> starter_summaries(rows)])

ListStarters(cookies) ==
    /\ \E cookie \in cookies : list_conversation_starters(cookie)
    /\ UNCHANGED <<now, pending, auth_inflight,
                   beta_invite, AUTH_FAILURES_BY_IP, conversations,
                   messages, message_translations, failed_since_ok,
                   starterVars>>

(***************************************************************************)
(* The refresh step by step, for readers that run while it is under way.   *)
(* replace_conversation_starters works on its own connection: BEGIN, then  *)
(* DELETE and the INSERTs, which change what that connection sees, then    *)
(* COMMIT, which makes it the table; the other connections read the        *)
(* committed table.  One such request is under way at a time.              *)
(***************************************************************************)
\* the request gets past the cooldown, the feed and the generation
refresh_reaches_replace(cookie, ip_address, reddit_posts, llm_starters) ==
    /\ load_authenticated_session(cookie) # NULL
    /\ ~in_cooldown(get_last_refresh_time(refresh_log, ip_address), now)
    /\ reddit_posts # NULL
    /\ reddit_posts[1] # <<>>
    /\ llm_starters = NULL
         => fallback_starters_from_posts(reddit_posts[1], STARTER_COUNT)
              # <<>>

\* what the DELETE leaves of the committed table and of the connection's
\* view; mutant: the DELETE is committed at once
delete_starters_Autocommit(committed, seen) ==
    [committed |-> {}, seen |-> {}]

\* the DELETE inside the transaction empties the connection's view only
delete_starters(committed, seen) ==
    [committed |-> committed, seen |-> {}]

\* the handler up to BEGIN; a request that fails before it is answered at
\* once
refresh_begin(cookie, ip_address, reddit_posts, llm_starters) ==
    LET session == load_authenticated_session(cookie)
        fallback_used == llm_starters = NULL
        starters_from_llm ==
            IF fallback_used
            THEN fallback_starters_from_posts(reddit_posts[1], STARTER_COUNT)
            ELSE llm_starters[1]
        payload == starters_payload(starters_from_llm, fallback_used, now,
                                    uuids_issued)
    IN
    IF ~refresh_reaches_replace(cookie, ip_address, reddit_posts,
                                llm_starters)
    THEN refresh_conversation_starters(cookie, ip_address, reddit_posts,
                                       llm_starters)
    ELSE
        /\ refresh_txn = NULL
        /\ uuids_issued + Len(payload) <= MaxStarterIds
        /\ auth_sessions' = refresh_sessions(cookie)
        /\ users' = refresh_users(auth_sessions[session[1]].user_id)
        /\ uuids_issued' = uuids_issued + Len(payload)
        /\ refresh_txn' =
               <<[req |-> [cookie |-> cookie, ip |-> ip_address,
                           reddit_posts |-> reddit_posts,
                           llm_starters |-> llm_starters],
                  pc |-> "begun", payload |-> payload, todo |-> payload,
                  generated_at |-> now,
                  previous |-> conversation_starters,
                  seen |-> conversation_starters]>>
        /\ UNCHANGED <<conversation_starters, refresh_log, resp>>

RefreshBegin(cookies, ips, feeds, llm_outcomes) ==
    /\ \E cookie \in cookies, ip_address \in ips, reddit_posts \in feeds,
          llm_starters \in llm_outcomes :
           refresh_begin(cookie, ip_address, reddit_posts, llm_starters)
    /\ UNCHANGED <<now, pending, auth_inflight,
                   beta_invite, AUTH_FAILURES_BY_IP, conversations,
                   messages, message_translations, failed_since_ok>>

\* DELETE FROM conversation_starters
TxnDelete ==
    /\ refresh_txn # NULL
    /\ refresh_txn[1].pc = "begun"
    /\ LET after == delete_starters(conversation_starters,
                                    refresh_txn[1].seen)
       IN /\ conversation_starters' = after.committed
          /\ refresh_txn' = <<[refresh_txn[1] EXCEPT
                                  !.pc = "inserting",
                                  !.seen = after.seen]>>
    /\ UNCHANGED <<now, pending, auth_inflight,
                   authVars, chatVars, message_translations,
                   refresh_log, uuids_issued, resp, failed_since_ok>>

\* the next INSERT
TxnInsert ==
    /\ refresh_txn # NULL
    /\ refresh_txn[1].pc = "inserting"
    /\ refresh_txn[1].todo # <<>>
    /\ refresh_txn' = <<[refresh_txn[1] EXCEPT
                            !.todo = Tail(@),
                            !.seen = @ \cup {Head(refresh_txn[1].todo)}]>>
    /\ UNCHANGED <<now, pending, auth_inflight,
                   authVars, chatVars, message_translations,
                   conversation_starters, refresh_log, uuids_issued, resp,
                   failed_since_ok>>

\* COMMIT
TxnCommit ==
    /\ refresh_txn # NULL
    /\ refresh_txn[1].pc = "inserting"
    /\ refresh_txn[1].todo = <<>>
    /\ conversation_starters' = refresh_txn[1].seen
    /\ refresh_txn' = <<[refresh_txn[1] EXCEPT !.pc = "committed"]>>
    /\ UNCHANGED <<now, pending, auth_inflight,
                   authVars, chatVars, message_translations,
                   refresh_log, uuids_issued, resp, failed_since_ok>>

\* a statement of the transaction raises: the connection is closed without
\* COMMIT, its changes are rolled back, and the request ends with 500
TxnAbort ==
    /\ refresh_txn # NULL
    /\ refresh_txn[1].pc \in {"begun", "inserting"}
    /\ refresh_txn' = NULL
    /\ Respond("refresh", 500, refresh_txn[1].req, NULL)
    /\ UNCHANGED <<now, pending, auth_inflight,
                   authVars, chatVars, message_translations,
                   conversation_starters, refresh_log, uuids_issued,
                   failed_since_ok>>

\* update_refresh_time and the response
RefreshFinish ==
    /\ refresh_txn # NULL
    /\ refresh_txn[1].pc = "committed"
    /\ refresh_log' =
           update_refresh_time(refresh_log, refresh_txn[1].req.ip, now)
    /\ refresh_txn' = NULL
    /\ Respond("refresh", 200, refresh_txn[1].req,
           [count |-> Len(refresh_txn[1].payload),
            generated_at |-> refresh_txn[1].generated_at])
    /\ UNCHANGED <<now, pending, auth_inflight,
                   authVars, chatVars, message_translations,
                   conversation_starters, uuids_issued, failed_since_ok>>

(***************************************************************************)
(* GET /api/me await by await: require_authenticated_user looks the        *)
(* session up, computes the new expiry when it calls extend_auth_session,  *)
(* and the UPDATEs of extend_auth_session and touch_user run at later      *)
(* awaits, so other requests are served in between.                        *)
(***************************************************************************)
\* _load_authenticated_session returned a session; _session_expiry_iso() is
\* evaluated as the argument of extend_auth_session
MeBegin(cookies) ==
    /\ auth_inflight = NULL
    /\ \E cookie \in cookies :
          LET session == load_authenticated_session(cookie)
          IN /\ session # NULL
             /\ auth_inflight' =
                    <<[cookie |-> cookie, pc |-> "extend",
                       user_id |-> auth_sessions[session[1]].user_id,
                       expires_at |-> session_expiry_iso(now)]>>
    /\ UNCHANGED <<now, pending, authVars, chatVars, message_translations,
                   starterVars, resp, failed_since_ok>>

\* the UPDATE of extend_auth_session
MeExtend ==
    /\ auth_inflight # NULL
    /\ auth_inflight[1].pc = "extend"
    /\ auth_sessions' =
           extend_auth_session(auth_sessions,
                               hash_token(auth_inflight[1].cookie[1]),
                               auth_inflight[1].expires_at)
    /\ auth_inflight' = <<[auth_inflight[1] EXCEPT !.pc = "touch"]>>
    /\ UNCHANGED <<now, pending, users, beta_invite, AUTH_FAILURES_BY_IP, chatVars,
                   message_translations, starterVars, resp, failed_since_ok>>

\* touch_user, then the handler body and the response
MeFinish ==
    /\ auth_inflight # NULL
    /\ auth_inflight[1].pc = "touch"
    /\ users' = refresh_users(auth_inflight[1].user_id)
    /\ auth_inflight' = NULL
    /\ Respond("get_me", 200, [cookie |-> auth_inflight[1].cookie],
               [user_id |-> auth_inflight[1].user_id])
    /\ UNCHANGED <<now, pending, auth_sessions, beta_invite, AUTH_FAILURES_BY_IP,
                   chatVars, message_translations, starterVars,
                   failed_since_ok>>

\* the UPDATE or the COMMIT of touch_user raises; its finally clause closes
\* the connection and the row is left as it was
MeTouchRaises ==
    /\ auth_inflight # NULL
    /\ auth_inflight[1].pc = "touch"
    /\ auth_inflight' = <<[auth_inflight[1] EXCEPT !.pc = "touch_raised"]>>
    /\ UNCHANGED <<now, pending, authVars, chatVars, message_translations,
                   starterVars, resp, failed_since_ok>>

\* neither touch_user, _refresh_session_activity nor
\* require_authenticated_user catches the exception: the handler body is not
\* run and the request is answered 500
MeTouchPropagates ==
    /\ auth_inflight # NULL
    /\ auth_inflight[1].pc = "touch_raised"
    /\ auth_inflight' = NULL
    /\ Respond("get_me", 500, [cookie |-> auth_inflight[1].cookie], NULL)
    /\ UNCHANGED <<now, pending, authVars, chatVars, message_translations,
                   starterVars, failed_since_ok>>

(***************************************************************************)
(* Handlers await by await.  A request that has arrived and is suspended   *)
(* at an await is an entry of pending; each action below runs one entry    *)
(* from the database call it awaits up to its next await or its response,  *)
(* and the event loop may run the entries in any order.                    *)
(***************************************************************************)
\* seq without its i-th entry
Drop(seq, i) == SubSeq(seq, 1, i - 1) \o SubSeq(seq, i + 1, Len(seq))

\* the entries of pending that are in the handler op at the await pc
Waiting(op, pc) ==
    {i \in 1..Len(pending) : pending[i].op = op /\ pending[i].pc = pc}

\* the users table has UNIQUE(username): TRUE when the INSERT of create_user
\* does not raise; mutant: the table has no such constraint
username_is_unique_Unchecked(U, username) == TRUE

username_is_unique(U, username) ==
    \A id \in DOMAIN U : U[id].username # username

\* POST /api/auth/register up to its first await: _check_auth_rate_limit
register_arrive(ip_address, raw_username, password, invite_code) ==
    LET req == [ip |-> ip_address, username |-> raw_username,
                password |-> password, invite_code |-> invite_code]
    IN /\ AUTH_FAILURES_BY_IP' =
              prune_failures(AUTH_FAILURES_BY_IP, ip_address, now)
       /\ IF check_auth_rate_limit(AUTH_FAILURES_BY_IP, ip_address, now)
          THEN /\ Respond("register", 429, req, NULL)
               /\ ObserveAuth(ip_address)
               /\ UNCHANGED pending
          ELSE /\ Len(pending) < MaxPending
               /\ pending' = Append(pending, [op |-> "register",
                                              pc |-> "get_invite",
                                              req |-> req])
               /\ UNCHANGED <<resp, failed_since_ok>>

RegisterArrive(ips, usernames, passwords, invite_codes) ==
    /\ \E ip_address \in ips, raw_username \in usernames,
          password \in passwords, invite_code \in invite_codes :
           register_arrive(ip_address, raw_username, password, invite_code)
    /\ UNCHANGED <<now, users, auth_sessions, beta_invite, auth_inflight,
                   chatVars, message_translations, starterVars>>

\* db.get_beta_invite_code_hash, then the checks of the invite code, the
\* username and the password
RegisterInvite ==
    /\ \E i \in Waiting("register", "get_invite") :
          LET req == pending[i].req
              username == normalize_username(req.username)
              status ==
                  IF beta_invite = NULL THEN 503
                  ELSE IF ~invite_code_matches(req.invite_code,
                                                beta_invite[1]) THEN 401
                  ELSE IF ~USERNAME_RE(username) THEN 422
                  ELSE IF Len(req.password) < PASSWORD_MIN_LENGTH THEN 422
                  ELSE 0
          IN IF status = 0
             THEN /\ pending' = [pending EXCEPT ![i].pc = "get_user"]
                  /\ UNCHANGED <<AUTH_FAILURES_BY_IP, resp, failed_since_ok>>
             ELSE /\ pending' = Drop(pending, i)
                  /\ AUTH_FAILURES_BY_IP' =
                         IF status = 401
                         THEN record_auth_failure(AUTH_FAILURES_BY_IP,
                                                  req.ip, now)
                         ELSE AUTH_FAILURES_BY_IP
                  /\ Respond("register", status, req, NULL)
                  /\ ObserveAuth(req.ip)
    /\ UNCHANGED <<now, users, auth_sessions, beta_invite, auth_inflight,
                   chatVars, message_translations, starterVars>>

\* db.get_user_by_username and the 409 of a taken username
RegisterLookup ==
    /\ \E i \in Waiting("register", "get_user") :
          LET req == pending[i].req
              username == normalize_username(req.username)
          IN IF get_user_by_username(users, username) # NULL
             THEN /\ pending' = Drop(pending, i)
                  /\ Respond("register", 409, req, NULL)
                  /\ ObserveAuth(req.ip)
             ELSE /\ pending' = [pending EXCEPT ![i].pc = "create_user"]
                  /\ UNCHANGED <<resp, failed_since_ok>>
    /\ UNCHANGED <<now, authVars, auth_inflight, chatVars,
                   message_translations, starterVars>>

\* db.create_user, which returns False when its INSERT raises, and
\* db.get_user_by_id
RegisterCreate ==
    /\ \E i \in Waiting("register", "create_user") :
          LET req == pending[i].req
              username == normalize_username(req.username)
          IN IF username_is_unique(users, username)
             THEN /\ users' = create_user(users, new_user_id, username,
                                          hash_password(req.password), now)
                  /\ pending' =
                         [pending EXCEPT ![i] =
                             [op |-> "register", pc |-> "create_session",
                              req |-> req, user_id |-> new_user_id]]
                  /\ UNCHANGED <<resp, failed_since_ok>>
             ELSE /\ pending' = Drop(pending, i)
                  /\ Respond("register", 500, req, NULL)
                  /\ ObserveAuth(req.ip)
                  /\ UNCHANGED users
    /\ UNCHANGED <<now, auth_sessions, beta_invite, AUTH_FAILURES_BY_IP,
                   auth_inflight, chatVars, message_translations,
                   starterVars>>

\* db.create_auth_session, the cookie, _clear_auth_failures and the response
RegisterSession ==
    /\ \E i \in Waiting("register", "create_session") :
          LET req == pending[i].req
              token == new_session_token
          IN /\ Cardinality(DOMAIN auth_sessions) < MaxSessions
             /\ auth_sessions' = create_auth_session(
                    auth_sessions, new_session_id, pending[i].user_id,
                    hash_token(token), session_expiry_iso(now))
             /\ AUTH_FAILURES_BY_IP' =
                    clear_auth_failures(AUTH_FAILURES_BY_IP, req.ip)
             /\ pending' = Drop(pending, i)
             /\ Respond("register", 200, req,
                        [cookie |-> <<token>>,
                         user_id |-> pending[i].user_id])
             /\ ObserveAuth(req.ip)
    /\ UNCHANGED <<now, users, beta_invite, auth_inflight, chatVars,
                   message_translations, starterVars>>

\* db.create_auth_session when its INSERT raises: the function returns
\* False and register answers 500 "Failed to create session."; the user
\* row that db.create_user committed is not removed
RegisterSessionFails ==
    /\ \E i \in Waiting("register", "create_session") :
          LET req == pending[i].req
          IN /\ pending' = Drop(pending, i)
             /\ Respond("register", 500, req, NULL)
             /\ ObserveAuth(req.ip)
    /\ UNCHANGED <<now, users, auth_sessions, beta_invite,
                   AUTH_FAILURES_BY_IP, auth_inflight, chatVars,
                   message_translations, starterVars>>

\* POST /api/auth/login up to its first await: _check_auth_rate_limit and
\* the check of the username's form, whose failure is recorded at once
login_arrive(ip_address, raw_username, password) ==
    LET req == [ip |-> ip_address, username |-> raw_username,
                password |-> password]
        pruned == prune_failures(AUTH_FAILURES_BY_IP, ip_address, now)
    IN
    IF check_auth_rate_limit(AUTH_FAILURES_BY_IP, ip_address, now) THEN
        /\ AUTH_FAILURES_BY_IP' = pruned
        /\ Respond("login", 429, req,
               [detail |->
                  "Too many authentication attempts. Please try again later."])
        /\ ObserveAuth(ip_address)
        /\ UNCHANGED pending
    ELSE IF ~USERNAME_RE(normalize_username(raw_username)) THEN
        /\ AUTH_FAILURES_BY_IP' = record_auth_failure(pruned, ip_address, now)
        /\ Respond("login", 401, req, [detail |-> "Invalid credentials."])
        /\ ObserveAuth(ip_address)
        /\ UNCHANGED pending
    ELSE
        /\ Len(pending) < MaxPending
        /\ AUTH_FAILURES_BY_IP' = pruned
        /\ pending' = Append(pending,
               [op |-> "login", pc |-> "get_user", req |-> req])
        /\ UNCHANGED <<resp, failed_since_ok>>

LoginArrive(ips, usernames, passwords) ==
    /\ \E ip_address \in ips, raw_username \in usernames,
          password \in passwords :
           login_arrive(ip_address, raw_username, password)
    /\ UNCHANGED <<now, users, auth_sessions, beta_invite, auth_inflight,
                   chatVars, message_translations, starterVars>>

\* db.get_user_by_username, _verify_password and the recorded 401
LoginVerify ==
    /\ \E i \in Waiting("login", "get_user") :
          LET req == pending[i].req
              user == get_user_by_username(users,
                          normalize_username(req.username))
          IN IF \/ user = NULL
                \/ ~verify_password(req.password,
                                    users[user[1]].password_hash)
             THEN /\ AUTH_FAILURES_BY_IP' =
                         record_auth_failure(AUTH_FAILURES_BY_IP, req.ip, now)
                  /\ pending' = Drop(pending, i)
                  /\ Respond("login", 401, req,
                             [detail |-> "Invalid credentials."])
                  /\ ObserveAuth(req.ip)
             ELSE /\ pending' =
                         [pending EXCEPT ![i] =
                             [op |-> "login", pc |-> "create_session",
                              req |-> req, user_id |-> user[1]]]
                  /\ UNCHANGED <<AUTH_FAILURES_BY_IP, resp, failed_since_ok>>
    /\ UNCHANGED <<now, users, auth_sessions, beta_invite, auth_inflight,
                   chatVars, message_translations, starterVars>>

\* db.create_auth_session, db.touch_user, the cookie, _clear_auth_failures
\* and the response
LoginSession ==
    /\ \E i \in Waiting("login", "create_session") :
          LET req == pending[i].req
              token == new_session_token
          IN /\ Cardinality(DOMAIN auth_sessions) < MaxSessions
             /\ auth_sessions' = create_auth_session(
                    auth_sessions, new_session_id, pending[i].user_id,
                    hash_token(token), session_expiry_iso(now))
             /\ users' = touch_user(users, pending[i].user_id, now)
             /\ AUTH_FAILURES_BY_IP' =
                    clear_auth_failures(AUTH_FAILURES_BY_IP, req.ip)
             /\ pending' = Drop(pending, i)
             /\ Respond("login", 200, req,
                        [cookie |-> <<token>>,
                         user_id |-> pending[i].user_id])
             /\ ObserveAuth(req.ip)
    /\ UNCHANGED <<now, beta_invite, auth_inflight, chatVars,
                   message_translations, starterVars>>

\* POST /api/conversation_starters/refresh up to the cooldown check: the
\* session, now = utcnow(), db.get_last_refresh_time and the 429; a request
\* that passes is suspended at the fetch of the feed
refresh_arrive(cookie, ip_address) ==
    LET req == [cookie |-> cookie, ip |-> ip_address,
                reddit_posts |-> NULL, llm_starters |-> NULL]
        session == load_authenticated_session(cookie)
        last_refresh == get_last_refresh_time(refresh_log, ip_address)
    IN
    IF session = NULL THEN
        /\ Respond("refresh", 401, req, NULL)
        /\ UNCHANGED <<users, auth_sessions, pending>>
    ELSE
        /\ auth_sessions' = refresh_sessions(cookie)
        /\ users' = refresh_users(auth_sessions[session[1]].user_id)
        /\ IF in_cooldown(last_refresh, now) THEN
               /\ Respond("refresh", 429, req,
                      [retry_after_seconds |->
                           retry_after_seconds(last_refresh, now)])
               /\ UNCHANGED pending
           ELSE
               /\ Len(pending) < MaxPending
               /\ pending' = Append(pending,
                      [op |-> "refresh", pc |-> "fetch", cookie |-> cookie,
                       ip |-> ip_address, now |-> now])
               /\ UNCHANGED resp

RefreshArrive(cookies, ips) ==
    /\ \E cookie \in cookies, ip_address \in ips :
           refresh_arrive(cookie, ip_address)
    /\ UNCHANGED <<now, beta_invite, AUTH_FAILURES_BY_IP, auth_inflight,
                   chatVars, message_translations, starterVars,
                   failed_since_ok>>

\* the fetch of the feed and the generation of the starters, their 502 and
\* 500, and the BEGIN of db.replace_conversation_starters, which waits until
\* no other connection is writing
refresh_generate(i, reddit_posts, llm_starters) ==
    LET req == [cookie |-> pending[i].cookie, ip |-> pending[i].ip,
                reddit_posts |-> reddit_posts, llm_starters |-> llm_starters]
        fallback_used == llm_starters = NULL
        starters_from_llm ==
            IF fallback_used
            THEN fallback_starters_from_posts(reddit_posts[1], STARTER_COUNT)
            ELSE llm_starters[1]
        payload == starters_payload(starters_from_llm, fallback_used,
                                    pending[i].now, uuids_issued)
    IN
    IF reddit_posts = NULL \/ reddit_posts[1] = <<>> THEN
        /\ Respond("refresh", 502, req, NULL)
        /\ pending' = Drop(pending, i)
        /\ UNCHANGED starterVars
    ELSE IF fallback_used /\ starters_from_llm = <<>> THEN
        /\ Respond("refresh", 500, req, NULL)
        /\ pending' = Drop(pending, i)
        /\ UNCHANGED starterVars
    ELSE
        /\ refresh_txn = NULL
        /\ uuids_issued + Len(payload) <= MaxStarterIds
        /\ uuids_issued' = uuids_issued + Len(payload)
        /\ refresh_txn' =
               <<[req |-> req, pc |-> "begun", payload |-> payload,
                  todo |-> payload, generated_at |-> pending[i].now,
                  previous |-> conversation_starters,
                  seen |-> conversation_starters]>>
        /\ pending' = Drop(pending, i)
        /\ UNCHANGED <<conversation_starters, refresh_log, resp>>

RefreshGenerate(feeds, llm_outcomes) ==
    /\ \E i \in Waiting("refresh", "fetch"), reddit_posts \in feeds,
          llm_starters \in llm_outcomes :
           refresh_generate(i, reddit_posts, llm_starters)
    /\ UNCHANGED <<now, authVars, auth_inflight, chatVars,
                   message_translations, failed_since_ok>>

(***************************************************************************)
(* The page routes GET /, GET /chat and GET /auth                          *)
(***************************************************************************)
Unreserved ==
    {"a", "b", "c", "d", "e", "f", "g", "h", "i", "j", "k", "l", "m", "n",
     "o", "p", "q", "r", "s", "t", "u", "v", "w", "x", "y", "z",
     "0", "1", "2", "3", "4", "5", "6", "7", "8", "9", "_", ".", "-", "~"}

\* the two hexadecimal digits of the characters used here
HexOf(c) ==
    CASE c = "/" -> <<"2", "F">>
      [] c = "?" -> <<"3", "F">>
      [] c = "=" -> <<"3", "D">>
      [] c = "&" -> <<"2", "6">>
      [] c = ":" -> <<"3", "A">>
      [] c = "#" -> <<"2", "3">>
      [] c = " " -> <<"2", "0">>
      [] c = "\\" -> <<"5", "C">>
      [] OTHER -> <<"0", "0">>

\* urllib.parse.quote(s, safe='')
RECURSIVE quote(_)
quote(s) ==
    IF s = <<>> THEN <<>>
    ELSE (IF Head(s) \in Unreserved THEN <<Head(s)>>
          ELSE <<"%">> \o HexOf(Head(s))) \o quote(Tail(s))

StartsWith(s, prefix) ==
    Len(s) >= Len(prefix) /\ SubSeq(s, 1, Len(prefix)) = prefix

AuthPath == <<"/", "a", "u", "t", "h">>

\* _build_next_path
build_next_path(path, query) ==
    IF query # <<>> THEN path \o <<"?">> \o query ELSE path

\* _sanitize_next_path
sanitize_next_path(raw_next) ==
    IF raw_next = NULL \/ raw_next[1] = <<>> THEN <<"/">>
    ELSE IF ~StartsWith(raw_next[1], <<"/">>)
            \/ StartsWith(raw_next[1], <<"/", "/">>) THEN <<"/">>
    ELSE IF raw_next[1] = AuthPath
            \/ StartsWith(raw_next[1], AuthPath \o <<"?">>) THEN <<"/">>
    ELSE raw_next[1]

\* the Location of _auth_redirect_response
auth_redirect_location(path, query) ==
    AuthPath \o <<"?", "n", "e", "x", "t", "=">>
        \o quote(build_next_path(path, query))

\* read_root and read_chat: the page for a session, the redirect without
read_page(op, path, cookie, query) ==
    LET session == load_authenticated_session(cookie)
        req == [cookie |-> cookie, path |-> path, query |-> query]
    IN IF session = NULL THEN
           /\ Respond(op, 302, req,
                  [location |-> auth_redirect_location(path, query)])
           /\ UNCHANGED <<users, auth_sessions>>
       ELSE
           /\ auth_sessions' = refresh_sessions(cookie)
           /\ users' = refresh_users(auth_sessions[session[1]].user_id)
           /\ Respond(op, 200, req, NULL)

read_root(cookie, query) == read_page("read_root", <<"/">>, cookie, query)

read_chat(cookie, query) ==
    read_page("read_chat", <<"/", "c", "h", "a", "t">>, cookie, query)

\* read_auth: a session is sent on to the sanitized next, the others get
\* the login page
read_auth(cookie, raw_next) ==
    LET session == load_authenticated_session(cookie)
        next_path == sanitize_next_path(raw_next)
        req == [cookie |-> cookie, path |-> AuthPath, next |-> raw_next]
    IN IF session = NULL THEN
           /\ Respond("read_auth", 200, req, NULL)
           /\ UNCHANGED <<users, auth_sessions>>
       ELSE
           /\ auth_sessions' = refresh_sessions(cookie)
           /\ users' = refresh_users(auth_sessions[session[1]].user_id)
           /\ Respond("read_auth", 302, req, [location |-> next_path])

ReadPage(cookies, queries) ==
    /\ \E cookie \in cookies, query \in queries :
           read_root(cookie, query) \/ read_chat(cookie, query)
    /\ UNCHANGED <<now, pending, auth_inflight, beta_invite, AUTH_FAILURES_BY_IP,
                   chatVars, message_translations, starterVars,
                   failed_since_ok>>

ReadAuth(cookies, raw_nexts) ==
    /\ \E cookie \in cookies, raw_next \in raw_nexts :
           read_auth(cookie, raw_next)
    /\ UNCHANGED <<now, pending, auth_inflight, beta_invite, AUTH_FAILURES_BY_IP,
                   chatVars, message_translations, starterVars,
                   failed_since_ok>>

(***************************************************************************)
(* The clock, and scripts/beta_invite.py set                               *)
(***************************************************************************)
Tick ==
    /\ now < MaxTime
    /\ now' = now + 1
    /\ UNCHANGED <<authVars, chatVars, message_translations, resp,
                   failed_since_ok, starterVars, auth_inflight,
                   pending>>

\* scripts/beta_invite.py set --code: a maintenance command, not a request
set_code(plain_code) ==
    beta_invite' = <<hash_invite_code(plain_code)>>

NoResponse ==
    [seq |-> 0, op |-> "none", status |-> 0, req |-> NULL, out |-> NULL]

Init ==
    /\ now = 0
    /\ users = <<>>
    /\ auth_sessions = <<>>
    /\ beta_invite \in {NULL, <<hash_invite_code(InviteCode)>>}
    /\ AUTH_FAILURES_BY_IP = <<>>
    /\ conversations = <<>>
    /\ messages = <<>>
    /\ message_translations = {}
    /\ conversation_starters = {}
    /\ refresh_log = <<>>
    /\ uuids_issued = 0
    /\ refresh_txn = NULL
    /\ auth_inflight = NULL
    /\ pending = <<>>
    /\ resp = NoResponse
    /\ failed_since_ok = [ip \in IPs |-> <<>>]

(***************************************************************************)
(* Spec: the session lifecycle of one account.                              *)
(***************************************************************************)
Next ==
    \/ Register({"ip1"}, {Ali}, {GoodPw}, {InviteCode})
    \/ Login({"ip1"}, {Ali}, {GoodPw})
    \/ Logout
    \/ GetMe
    \/ Tick

Spec == Init /\ [][Next]_vars

(***************************************************************************)
(* Session predicates used by the properties.                              *)
(***************************************************************************)
\* the session rows of a cookie's token (token_hash is UNIQUE: at most one)
SessionsIn(S, cookie) ==
    {id \in DOMAIN S :
        cookie # NULL /\ S[id].token_hash = hash_token(cookie[1])}

SessionsOf(cookie) == SessionsIn(auth_sessions, cookie)

\* issued, not logged out, and expires_at not reached
LiveIn(S, t, cookie) ==
    \E id \in SessionsIn(S, cookie) :
        /\ S[id].revoked_at = NULL
        /\ t < S[id].expires_at

Live(cookie) == LiveIn(auth_sessions, now, cookie)

LoggedOutIn(S, cookie) ==
    \E id \in SessionsIn(S, cookie) : S[id].revoked_at # NULL

LoggedOut(cookie) == LoggedOutIn(auth_sessions, cookie)

IsResponse(op) == resp'.seq # resp.seq /\ resp'.op = op

\* C1: a token issued by a successful register or login is live at once,
\* stays live until it is logged out or the clock reaches its expires_at,
\* and a protected request (GET /api/me) carrying a live token gets 200;
\* a logout with the token leaves it logged out for ever, and a protected
\* request carrying a logged-out token gets 401.
C1_SessionAuthenticatesUntilLogoutOrExpiry ==
    /\ [][(IsResponse("register") \/ IsResponse("login")) /\ resp'.status = 200
            => LiveIn(auth_sessions', now', resp'.out.cookie)]_vars
    /\ [][\A cookie \in Cookies :
            Live(cookie) /\ ~Live(cookie)'
              => \/ IsResponse("logout") /\ resp'.req.cookie = cookie
                 \/ \E id \in SessionsOf(cookie) :
                        now' >= auth_sessions[id].expires_at]_vars
    /\ [][IsResponse("get_me") /\ Live(resp'.req.cookie)
            => resp'.status = 200]_vars
    /\ [][IsResponse("logout") /\ SessionsOf(resp'.req.cookie) # {}
            => LoggedOutIn(auth_sessions', resp'.req.cookie)]_vars
    /\ [][\A cookie \in Cookies :
            LoggedOut(cookie) => LoggedOut(cookie)' /\ ~Live(cookie)']_vars
    /\ [][IsResponse("get_me") /\ LoggedOut(resp'.req.cookie)
            => resp'.status = 401]_vars

\* a token that was live is presented after its logout and is refused,
\* though its expires_at is still ahead
C1_Witness ==
    /\ resp.op = "get_me"
    /\ resp.status = 401
    /\ LoggedOut(resp.req.cookie)
    /\ \E id \in SessionsOf(resp.req.cookie) :
           now < auth_sessions[id].expires_at

(***************************************************************************)
(* SpecThrottle: the failure throttle, two client addresses.               *)
(***************************************************************************)
NextThrottle ==
    \/ Register(IPs, {Ali}, {GoodPw}, {InviteCode, WrongCode})
    \/ Login(IPs, {Ali, BadChar}, {GoodPw, OtherPw})
    \/ Tick

SpecThrottle == Init /\ [][NextThrottle]_vars

IsAuthResponse == IsResponse("login") \/ IsResponse("register")

\* the last AUTH_RATE_LIMIT_MAX_FAILURES attempts of the ip since its last
\* success all failed inside the window that ends now
RecentlyFailedMaxTimes(ip) ==
    /\ Len(failed_since_ok[ip]) = AUTH_RATE_LIMIT_MAX_FAILURES
    /\ \A i \in 1..Len(failed_since_ok[ip]) :
           failed_since_ok[ip][i] >= now - AUTH_RATE_LIMIT_WINDOW_SECONDS

CorrectCredentials(req) ==
    \E id \in DOMAIN users :
        /\ users[id].username = normalize_username(req.username)
        /\ verify_password(req.password, users[id].password_hash)

\* C3: when the last N = AUTH_RATE_LIMIT_MAX_FAILURES auth attempts of an ip
\* failed, with no success between them and all inside the window, the next
\* auth attempt from that ip gets 429 and creates no session and no user,
\* whatever credentials it carries.
C3_BlockedAfterMaxFailures ==
    [][IsAuthResponse /\ RecentlyFailedMaxTimes(resp'.req.ip)
         => resp'.status = 429 /\ UNCHANGED <<users, auth_sessions>>]_vars

\* a login with the right password is turned away with 429
C3_Witness ==
    /\ resp.op = "login"
    /\ resp.status = 429
    /\ CorrectCredentials(resp.req)
    /\ RecentlyFailedMaxTimes(resp.req.ip)

\* C4: a successful login or register leaves no failure history for its ip
\* and leaves the history of every other ip as it was; an ip is only ever
\* rate-limited after N failed attempts since its last success, so the N-1
\* failed attempts that follow a success are admitted.
C4_SuccessClearsOwnHistoryOnly ==
    /\ [][IsAuthResponse /\ resp'.status = 200
            => /\ resp'.req.ip \notin DOMAIN AUTH_FAILURES_BY_IP'
               /\ \A ip \in IPs \ {resp'.req.ip} :
                    /\ ip \in DOMAIN AUTH_FAILURES_BY_IP'
                         <=> ip \in DOMAIN AUTH_FAILURES_BY_IP
                    /\ ip \in DOMAIN AUTH_FAILURES_BY_IP
                         => AUTH_FAILURES_BY_IP'[ip] = AUTH_FAILURES_BY_IP[ip]
          ]_vars
    /\ [][IsAuthResponse /\ resp'.status = 429
            => Len(failed_since_ok[resp'.req.ip])
                 = AUTH_RATE_LIMIT_MAX_FAILURES]_vars

\* a success from one ip while another ip holds a full failure history
C4_Witness ==
    /\ resp.op \in {"login", "register"}
    /\ resp.status = 200
    /\ resp.req.ip \notin DOMAIN AUTH_FAILURES_BY_IP
    /\ \E ip \in DOMAIN AUTH_FAILURES_BY_IP :
           Len(AUTH_FAILURES_BY_IP[ip]) = AUTH_RATE_LIMIT_MAX_FAILURES

\* C5: a login or register gets 429 exactly while the last N failures of its
\* ip since its last success are all inside the window (so it is admitted
\* again once one of them has aged out), and a request answered 429 adds no
\* failure: the ip's list is the old list without its aged entries.
C5_BlockedExactlyWhileFailuresRecent ==
    /\ [][IsAuthResponse
            => (resp'.status = 429 <=> RecentlyFailedMaxTimes(resp'.req.ip))
          ]_vars
    /\ [][IsAuthResponse /\ resp'.status = 429
            => AUTH_FAILURES_BY_IP'[resp'.req.ip]
                 = SelectSeq(AUTH_FAILURES_BY_IP[resp'.req.ip],
                     LAMBDA ts : ts >= now - AUTH_RATE_LIMIT_WINDOW_SECONDS)
          ]_vars

\* a register with a valid invite code is turned away while the ip is blocked
C5_Witness ==
    /\ resp.op = "register"
    /\ resp.status = 429
    /\ beta_invite # NULL
    /\ hash_invite_code(resp.req.invite_code) = beta_invite[1]
    /\ RecentlyFailedMaxTimes(resp.req.ip)

\* an attempt admitted again once the failures that blocked the ip aged out
C5_WitnessAdmittedAgain ==
    /\ resp.op \in {"login", "register"}
    /\ resp.status = 401
    /\ Len(failed_since_ok[resp.req.ip]) = AUTH_RATE_LIMIT_MAX_FAILURES
    /\ failed_since_ok[resp.req.ip][1] < now - AUTH_RATE_LIMIT_WINDOW_SECONDS

(***************************************************************************)
(* SpecRegister: registration with every kind of username, password and    *)
(* invite code.                                                            *)
(***************************************************************************)
NextRegister ==
    \/ Register({"ip1"}, RawUsernames, {GoodPw, ShortPw}, InviteCodes)
    \/ Tick

SpecRegister == Init /\ [][NextRegister]_vars

\* equal after trimming and lower-casing
SameUsername(a, b) == Lower(Strip(a)) = Lower(Strip(b))

UserRowsNamed(U, raw_username) ==
    {id \in DOMAIN U : U[id].username = Lower(Strip(raw_username))}

\* the request carries the configured invite code and a long enough password
ValidInviteAndPassword(req) ==
    /\ beta_invite # NULL
    /\ beta_invite[1] = <<"sha256$", Strip(req.invite_code)>>
    /\ Len(req.password) >= PASSWORD_MIN_LENGTH

\* C6: a register request with a valid invite code and password and a
\* well-formed username that passes the throttle gets 200 and adds the one
\* user row of its normalized name when no row has that name, and gets 409
\* and changes nothing when a row has it; so the register that directly
\* follows a successful one from the same address with a username equal up
\* to case and surrounding blanks gets 409, and no two rows ever share a
\* username.
C6_DuplicateUsernameConflict ==
    /\ [](\A a, b \in DOMAIN users :
            users[a].username = users[b].username => a = b)
    /\ [][/\ IsResponse("register")
          /\ ValidInviteAndPassword(resp'.req)
          /\ USERNAME_RE(Lower(Strip(resp'.req.username)))
          /\ ~RecentlyFailedMaxTimes(resp'.req.ip)
          => IF UserRowsNamed(users, resp'.req.username) = {}
             THEN /\ resp'.status = 200
                  /\ Cardinality(UserRowsNamed(users', resp'.req.username)) = 1
                  /\ Cardinality(DOMAIN users') = Cardinality(DOMAIN users) + 1
             ELSE /\ resp'.status = 409
                  /\ UNCHANGED <<users, auth_sessions>>]_vars
    /\ [][/\ resp.op = "register"
          /\ resp.status = 200
          /\ IsResponse("register")
          /\ resp'.req.ip = resp.req.ip
          /\ SameUsername(resp'.req.username, resp.req.username)
          /\ ValidInviteAndPassword(resp'.req)
          => /\ resp'.status = 409
             /\ UNCHANGED <<users, auth_sessions>>]_vars

\* the second of two registrations of one name in different casing: 409,
\* and one row of that name
C6_Witness ==
    /\ resp.op = "register"
    /\ resp.status = 409
    /\ resp.req.username = AliMixed
    /\ \E id \in DOMAIN users : users[id].username = Ali
    /\ Cardinality(UserRowsNamed(users, resp.req.username)) = 1

\* C7: a register request whose invite code does not hash to the stored
\* hash, or that finds no hash stored, changes neither users nor
\* auth_sessions; past the throttle it gets 401 for a wrong code and 503
\* when no hash is stored, whatever its username and password are.
C7_WrongInviteCreatesNothing ==
    [][/\ IsResponse("register")
       /\ \/ beta_invite = NULL
          \/ beta_invite[1] # <<"sha256$", Strip(resp'.req.invite_code)>>
       => /\ UNCHANGED <<users, auth_sessions>>
          /\ resp'.status =
               IF RecentlyFailedMaxTimes(resp'.req.ip) THEN 429
               ELSE IF beta_invite = NULL THEN 503
               ELSE 401]_vars

\* a wrong code with an ill-formed username and a short password: 401
C7_Witness ==
    /\ resp.op = "register"
    /\ resp.status = 401
    /\ beta_invite[1] # <<"sha256$", Strip(resp.req.invite_code)>>
    /\ ~USERNAME_RE(Lower(Strip(resp.req.username)))
    /\ Len(resp.req.password) < PASSWORD_MIN_LENGTH

(***************************************************************************)
(* SpecChat: two accounts, their conversations and chat turns.             *)
(***************************************************************************)
Hola == <<"h", "o", "l", "a">>

\* a chat request in Spanish with one user message; conversation_id is
\* NULL to start a conversation
ChatPayload(conversation_id) ==
    [conversation_id |-> conversation_id,
     messages |-> <<[role |-> "user", text |-> Hola]>>,
     language |-> "es", mode |-> "chat", is_primary_lang |-> TRUE,
     primary_lang |-> NULL, secondary_lang |-> NULL]

\* no cookie, the first account's token, the second account's token
TwoCookies == {NULL, <<1>>, <<2>>}

NextChat ==
    \/ Register({"ip1"}, {Ali, Bob}, {GoodPw}, {InviteCode})
    \/ Chat(TwoCookies, {ChatPayload(id) : id \in ConversationIds},
            {<<Hola>>})
    \/ GetConversationHistory(TwoCookies)
    \/ Tick

SpecChat == Init /\ [][NextChat]_vars

\* the user rows a cookie's token authenticates now
UsersOfCookie(cookie) ==
    {auth_sessions[id].user_id : id \in
        {i \in SessionsOf(cookie) :
            auth_sessions[i].revoked_at = NULL
            /\ now < auth_sessions[i].expires_at}}

\* C2: a conversation that POST /api/chat creates is owned by the user whose
\* session made the request, and its owner never changes; a GET
\* /api/conversations/{id} that carries a valid session of a user other than
\* the owner of conversation id gets 404 and no body, and every 200 of that
\* route answers the owner and returns only rows of that conversation.
C2_ConversationHiddenFromOtherUsers ==
    /\ [][IsResponse("chat") /\ resp'.status = 200
            /\ resp'.req.payload.conversation_id = NULL
            => /\ resp'.out.conversation_id \notin DOMAIN conversations
               /\ resp'.out.conversation_id \in DOMAIN conversations'
               /\ UsersOfCookie(resp'.req.cookie)
                    = {conversations'[resp'.out.conversation_id].user_id[1]}
          ]_vars
    /\ [][\A id \in DOMAIN conversations :
            /\ id \in DOMAIN conversations'
            /\ conversations'[id].user_id = conversations[id].user_id]_vars
    /\ [][/\ IsResponse("get_conversation_history")
          /\ resp'.req.conversation_id \in DOMAIN conversations
          /\ \E B \in UsersOfCookie(resp'.req.cookie) :
                <<B>> # conversations[resp'.req.conversation_id].user_id
          => resp'.status = 404 /\ resp'.out = NULL]_vars
    /\ [][IsResponse("get_conversation_history") /\ resp'.status = 200
          => /\ resp'.req.conversation_id \in DOMAIN conversations
             /\ UsersOfCookie(resp'.req.cookie)
                  = {conversations[resp'.req.conversation_id].user_id[1]}
             /\ resp'.out.conversation_id = resp'.req.conversation_id
             /\ \A i \in 1..Len(resp'.out.messages) :
                    resp'.out.messages[i].conversation_id
                        = resp'.req.conversation_id]_vars

\* user B, holding a valid session, asks for a conversation of user A that
\* has messages, and gets 404
C2_Witness ==
    /\ resp.op = "get_conversation_history"
    /\ resp.status = 404
    /\ resp.req.conversation_id \in DOMAIN conversations
    /\ \E B \in UsersOfCookie(resp.req.cookie) :
          <<B>> # conversations[resp.req.conversation_id].user_id
    /\ \E i \in 1..Len(messages) :
          messages[i].conversation_id = resp.req.conversation_id

(***************************************************************************)
(* SpecTranslate: one account and the translation cache, at one reading of *)
(* the clock.                                                              *)
(***************************************************************************)
TranslateTexts ==
    {<<>>, <<"hello">>, <<"bye">>, <<"new">>, <<"hola">>,
     <<"hello", "bye", "new">>, <<"new", "hello">>, <<"bye", "hola">>}

\* the strings that occur in TranslateTexts
TranslateItems == {"hello", "bye", "new", "hola"}

TranslatePayloads ==
    {[text |-> text, is_str |-> is_str, target_lang |-> target_lang] :
        text \in TranslateTexts, is_str \in BOOLEAN,
        target_lang \in {"es", "en"}}

NextTranslate ==
    \/ Register({"ip1"}, {Ali}, {GoodPw}, {InviteCode})
    \/ Translate({NULL, <<1>>},
                 {p \in TranslatePayloads : p.is_str => Len(p.text) = 1},
                 {{}, TranslateItems})

SpecTranslate == Init /\ [][NextTranslate]_vars

\* the (text, translated_text) keys of the rows
Pairs(T) == {<<r.text, r.translated_text>> : r \in T}

\* the non-empty translations the cache holds for a text
HitValues(T, item) ==
    {r.translated_text : r \in {q \in T : q.text = item /\ q.translated_text # ""}}

\* the lookup of the text can come back empty-handed: there is no row, or
\* a row whose translation is the empty string
CanMissSome(T, item) ==
    \/ \A r \in T : r.text # item
    \/ \E r \in T : r.text = item /\ r.translated_text = ""

\* the list a translate response carries
ResponseList(out) ==
    IF "str" \in DOMAIN out.translated_text
    THEN <<out.translated_text.str>>
    ELSE out.translated_text.list

\* C8 as claimed: when a translate request has saved its translations, the
\* lookup of the text saved last returns the translation saved for it and
\* the lookup of that translation returns the text, whatever the cache held
\* before.
C8_LookupReturnsWhatWasSaved ==
    [][IsResponse("translate") /\ resp'.status = 200
         /\ resp'.out.llm_calls # <<>>
         => LET items == resp'.out.llm_calls[1]
                x == items[Len(items)]
                answers == ResponseList(resp'.out)
                y == answers[Len(answers)]
            IN /\ get_translation(message_translations', x) = {<<y>>}
               /\ get_translation(message_translations', y) = {<<x>>}]_vars

\* C9: every row (a, b) of the cache has its mirror row (b, a), in every
\* reachable state, and no step removes a row.
C9_CacheSymmetric ==
    /\ [](\A r \in message_translations :
            <<r.translated_text, r.text>> \in Pairs(message_translations))
    /\ [][Pairs(message_translations)
            \subseteq Pairs(message_translations')]_vars

\* a translate request has just saved rows, and the cache holds a row
\* (a, b) with a # b next to rows of another pair
C9_Witness ==
    /\ resp.op = "translate"
    /\ resp.status = 200
    /\ resp.out.llm_calls # <<>>
    /\ \E r, q \in message_translations :
          /\ r.text # r.translated_text
          /\ q.text \notin {r.text, r.translated_text}

\* C10: a 200 response of POST /api/translate carries one text per item of
\* the request, in order.  For some k, items 1..k are answered with a
\* non-empty translation the cache held for them, and either k is the whole
\* list, no call goes to the LLM and the cache is unchanged, or the lookup
\* of item k+1 can come back empty (no row, or an empty translation) and
\* one call goes to the LLM with items k+1.. in order (cached or not), its
\* answers fill places k+1.., and the cache gains exactly the rows (item,
\* answer) and (answer, item) of those places.  For a list of three whose
\* first two items have only non-empty rows and whose third has none, the
\* new rows are exactly the pair of the third item.  (An item counts as a
\* hit when its lookup returns a non-empty text: the handler tests "if
\* cached".)
C10_PrefixFromCacheSuffixFromLlm ==
    /\ [][IsResponse("translate") /\ resp'.status = 200
          => LET text == resp'.req.payload.text
                 lang == resp'.req.payload.target_lang
                 n == Len(text)
                 R == ResponseList(resp'.out)
                 T == message_translations
             IN /\ Len(R) = n
                /\ \E k \in 0..n :
                    /\ \A i \in 1..k : R[i] \in HitValues(T, text[i])
                    /\ IF k = n
                       THEN /\ resp'.out.llm_calls = <<>>
                            /\ message_translations' = T
                       ELSE /\ CanMissSome(T, text[k + 1])
                            /\ resp'.out.llm_calls = <<SubSeq(text, k + 1, n)>>
                            /\ \A i \in (k + 1)..n :
                                  R[i] = LlmAnswer(text[i], lang)
                            /\ Pairs(message_translations') =
                                  Pairs(T)
                                  \cup {<<text[i], R[i]>> : i \in (k + 1)..n}
                                  \cup {<<R[i], text[i]>> : i \in (k + 1)..n}
         ]_vars
    /\ [][/\ IsResponse("translate")
          /\ resp'.status = 200
          /\ Len(resp'.req.payload.text) = 3
          /\ \A i \in 1..2 :
                /\ HitValues(message_translations,
                             resp'.req.payload.text[i]) # {}
                /\ ~CanMissSome(message_translations,
                                resp'.req.payload.text[i])
          /\ \A r \in message_translations :
                r.text # resp'.req.payload.text[3]
          => LET text == resp'.req.payload.text
                 R == ResponseList(resp'.out)
             IN /\ \A i \in 1..2 :
                      R[i] \in HitValues(message_translations, text[i])
                /\ resp'.out.llm_calls = <<<<text[3]>>>>
                /\ Pairs(message_translations')
                      \ Pairs(message_translations)
                     = {<<text[3], R[3]>>, <<R[3], text[3]>>}]_vars

\* [cached1, cached2, new1]: the first two answered from the cache, the
\* third by the LLM, and two more rows in the cache
C10_Witness ==
    /\ resp.op = "translate"
    /\ resp.status = 200
    /\ Len(resp.req.payload.text) = 3
    /\ resp.out.llm_calls = <<<<resp.req.payload.text[3]>>>>
    /\ ResponseList(resp.out)[3] # resp.req.payload.text[3]
    /\ Cardinality(message_translations) = 6

\* a later item that is cached is sent to the LLM again, behind a miss
C10_WitnessCachedItemRetranslated ==
    /\ resp.op = "translate"
    /\ resp.status = 200
    /\ resp.out.llm_calls = <<<<"new", "hello">>>>
    /\ \E r \in message_translations :
          r.text = "hello" /\ r.translated_text = "hola"
    /\ resp.req.payload.target_lang = "en"

(***************************************************************************)
(* SpecRefresh: one account refreshing and listing the starters from two   *)
(* client addresses.                                                       *)
(***************************************************************************)
PostA ==
    [title |-> <<"A", "i">>, selftext |-> <<>>, score |-> 5,
     subreddit |-> "technology", url |-> "https://reddit.com/a"]

PostBlank ==
    [title |-> <<" ">>, selftext |-> <<"x">>, score |-> 9,
     subreddit |-> "", url |-> "https://reddit.com/b"]

\* what topics.fetch_multiple_subreddits hands back
Feeds == {NULL, <<<<>>>>, <<<<PostBlank>>>>, <<<<PostBlank, PostA>>>>}

LlmStarter ==
    [title |-> <<"T">>, assistant_opening |-> <<"H", "i", "!">>,
     subreddit |-> "technology", source_url |-> "https://reddit.com/a"]

LlmStarterB ==
    [title |-> <<"U">>, assistant_opening |-> <<"Y", "o">>,
     subreddit |-> "science", source_url |-> "https://reddit.com/c"]

LlmStarterOutcomes == {NULL, <<<<LlmStarter>>>>}

OneCookie == {NULL, <<1>>}

NextRefresh ==
    \/ Register({"ip1"}, {Ali}, {GoodPw}, {InviteCode})
    \/ Refresh(OneCookie, IPs, Feeds, LlmStarterOutcomes)
    \/ ListStarters(OneCookie)
    \/ Tick

SpecRefresh == Init /\ [][NextRefresh]_vars

\* C11: a refresh request that carries a valid session and comes from an ip
\* whose recorded last_refresh_at is less than the cooldown ago gets 429
\* with retry_after_seconds, the remaining time in whole seconds, between 0
\* and the cooldown, and changes neither the starter set nor the refresh
\* log; the log of an ip is written by a refresh answered 200 and by nothing
\* else, so a recorded last_refresh_at is the time of a successful refresh.
C11_RefreshRespectsCooldown ==
    /\ [][/\ IsResponse("refresh")
          /\ Live(resp'.req.cookie)
          /\ resp'.req.ip \in DOMAIN refresh_log
          /\ now - refresh_log[resp'.req.ip] < cooldown_delta
          => /\ resp'.status = 429
             /\ resp'.out.retry_after_seconds >= 0
             /\ resp'.out.retry_after_seconds <= cooldown_seconds
             /\ resp'.out.retry_after_seconds * TicksPerSecond
                  <= cooldown_delta - (now - refresh_log[resp'.req.ip])
             /\ (resp'.out.retry_after_seconds + 1) * TicksPerSecond
                  > cooldown_delta - (now - refresh_log[resp'.req.ip])
             /\ UNCHANGED <<conversation_starters, refresh_log>>]_vars
    /\ [][refresh_log' # refresh_log
          => /\ IsResponse("refresh")
             /\ resp'.status = 200
             /\ refresh_log' =
                  [ip \in DOMAIN refresh_log \cup {resp'.req.ip} |->
                      IF ip = resp'.req.ip THEN now ELSE refresh_log[ip]]
         ]_vars

\* a second refresh half a second before the cooldown ends: 429, and the
\* remaining time is reported as 0 seconds
C11_Witness ==
    /\ resp.op = "refresh"
    /\ resp.status = 429
    /\ resp.out.retry_after_seconds = 0
    /\ resp.req.ip \in DOMAIN refresh_log
    /\ conversation_starters # {}

\* a refresh from the same ip admitted once the cooldown has elapsed
C11_WitnessAdmittedAfterCooldown ==
    /\ resp.op = "refresh"
    /\ resp.status = 200
    /\ uuids_issued >= 2
    /\ DOMAIN refresh_log = {resp.req.ip}

(***************************************************************************)
(* SpecRefreshSteps: a reader of the starter list beside a refresh that    *)
(* runs statement by statement.                                            *)
(***************************************************************************)
NextRefreshSteps ==
    \/ Register({"ip1"}, {Ali}, {GoodPw}, {InviteCode})
    \/ RefreshBegin(OneCookie, {"ip1"}, {<<<<PostBlank, PostA>>>>},
                    {NULL, <<<<LlmStarter, LlmStarterB>>>>})
    \/ TxnDelete
    \/ TxnInsert
    \/ TxnCommit
    \/ TxnAbort
    \/ RefreshFinish
    \/ ListStarters({<<1>>})
    \/ Tick

SpecRefreshSteps == Init /\ [][NextRefreshSteps]_vars

\* the ids of the starters a list response shows
ListedIds(out) == {out.starters[i].id : i \in 1..Len(out.starters)}

RowIds(rows) == {r.id : r \in rows}

\* C12: while a refresh is between its BEGIN and its response, a 200
\* response of GET /api/conversation_starters lists exactly the starters of
\* the set that was stored when the refresh began or exactly the starters
\* the refresh inserts, never an empty list when the stored set was not
\* empty; the table itself holds the previous set up to the COMMIT and the
\* new set from it on.
C12_ReaderSeesOldOrNewSet ==
    /\ [][/\ IsResponse("list_starters")
          /\ resp'.status = 200
          /\ refresh_txn # NULL
          => LET old == RowIds(refresh_txn[1].previous)
                 new == {refresh_txn[1].payload[i].id :
                            i \in 1..Len(refresh_txn[1].payload)}
             IN /\ ListedIds(resp'.out) \in {old, new}
                /\ Len(resp'.out.starters)
                     = Cardinality(ListedIds(resp'.out))
                /\ old # {} => ListedIds(resp'.out) # {}]_vars
    /\ [](refresh_txn # NULL
            => conversation_starters =
                 IF refresh_txn[1].pc = "committed"
                 THEN {refresh_txn[1].payload[i] :
                          i \in 1..Len(refresh_txn[1].payload)}
                 ELSE refresh_txn[1].previous)

\* a reader is answered with the previous set while the refresh has deleted
\* it on its own connection and not yet committed
C12_Witness ==
    /\ resp.op = "list_starters"
    /\ resp.status = 200
    /\ refresh_txn # NULL
    /\ refresh_txn[1].pc = "inserting"
    /\ refresh_txn[1].seen = {}
    /\ refresh_txn[1].previous # {}
    /\ ListedIds(resp.out) = RowIds(refresh_txn[1].previous)

(***************************************************************************)
(* SpecProtected: protected API routes called with every kind of cookie.   *)
(***************************************************************************)
NextProtected ==
    \/ Register({"ip1"}, {Ali}, {GoodPw}, {InviteCode})
    \/ Login({"ip1"}, {Ali}, {GoodPw})
    \/ Logout
    \/ GetMe
    \/ ListStarters(Cookies)
    \/ GetConversationHistory(Cookies)
    \/ Tick

SpecProtected == Init /\ [][NextProtected]_vars

ProtectedOps == {"get_me", "list_starters", "get_conversation_history"}

IsProtectedResponse == resp'.seq # resp.seq /\ resp'.op \in ProtectedOps

\* the cookie's token hashes to a session row with revoked_at null and
\* expires_at later than now
HasValidSessionRow(cookie) ==
    /\ cookie # NULL
    /\ \E id \in DOMAIN auth_sessions :
           /\ auth_sessions[id].token_hash = hash_token(cookie[1])
           /\ auth_sessions[id].revoked_at = NULL
           /\ auth_sessions[id].expires_at > now

\* C13: a protected API request is answered 401 exactly when its cookie's
\* token does not hash to a session row with revoked_at null and expires_at
\* strictly later than the current time (no cookie, unknown token, revoked
\* or expired session), and a 401 leaves every session row and every user
\* row as it was.
C13_AcceptedIffValidSessionRow ==
    [][IsProtectedResponse
         => /\ resp'.status # 401 <=> HasValidSessionRow(resp'.req.cookie)
            /\ resp'.status = 401 => UNCHANGED <<auth_sessions, users>>]_vars

\* a session that was never logged out is refused at the very instant its
\* expires_at is reached
C13_Witness ==
    /\ resp.op \in ProtectedOps
    /\ resp.status = 401
    /\ resp.req.cookie # NULL
    /\ \E id \in SessionsOf(resp.req.cookie) :
           /\ auth_sessions[id].revoked_at = NULL
           /\ auth_sessions[id].expires_at = now

\* an unknown token is refused while another session is valid
C13_WitnessUnknownToken ==
    /\ resp.op \in ProtectedOps
    /\ resp.status = 401
    /\ resp.req.cookie # NULL
    /\ SessionsOf(resp.req.cookie) = {}
    /\ \E cookie \in Cookies : HasValidSessionRow(cookie)

(***************************************************************************)
(* SpecRolling: one session used by API and page requests, one GET /api/me *)
(* of them served await by await beside the others.                        *)
(***************************************************************************)
NextRolling ==
    \/ Register({"ip1"}, {Ali}, {GoodPw}, {InviteCode})
    \/ GetMe
    \/ MeBegin({<<1>>})
    \/ MeExtend
    \/ MeFinish
    \/ ReadPage(OneCookie, {<<>>})
    \/ ReadAuth(OneCookie, {NULL})
    \/ Tick

SpecRolling == Init /\ [][NextRolling]_vars

\* the response of an authenticated request that was accepted
Accepted(r) ==
    \/ r.op \in {"get_me", "read_root", "read_chat"} /\ r.status = 200
    \/ r.op = "read_auth" /\ r.status = 302

\* this step is the response of the request that was served await by await
IsMeFinish == auth_inflight # NULL /\ auth_inflight' = NULL

\* C14: every accepted authenticated request, API route or page route, sets
\* expires_at of its session to the time of the request plus
\* SESSION_TTL_DAYS and last_seen_at of its user to the current time, so
\* that the session is still unexpired at every time less than
\* SESSION_TTL_DAYS after the request; and no step lowers expires_at of a
\* session that is neither revoked nor expired.
C14_RollingExpiryNeverDecreases ==
    /\ [][resp'.seq # resp.seq /\ Accepted(resp') /\ ~IsMeFinish
            => /\ \A id \in SessionsOf(resp'.req.cookie) :
                     /\ auth_sessions'[id].expires_at
                          = now + SESSION_TTL_DAYS
                     /\ auth_sessions'[id].expires_at
                          > now + SESSION_TTL_DAYS - 1
                     /\ users'[auth_sessions[id].user_id].last_seen_at = now
               /\ SessionsOf(resp'.req.cookie) # {}]_vars
    /\ [][auth_inflight # NULL /\ auth_inflight[1].pc = "extend"
            /\ auth_inflight' # auth_inflight
            => \A id \in SessionsOf(auth_inflight[1].cookie) :
                   auth_sessions[id].revoked_at = NULL
                     => auth_sessions'[id].expires_at
                          = auth_inflight[1].expires_at]_vars
    /\ [][IsMeFinish
            => users'[auth_inflight[1].user_id].last_seen_at = now]_vars
    /\ [][\A id \in DOMAIN auth_sessions :
            /\ auth_sessions[id].revoked_at = NULL
            /\ auth_sessions[id].expires_at > now
            => auth_sessions'[id].expires_at
                 >= auth_sessions[id].expires_at]_vars

(***************************************************************************)
(* SpecLogout: two accounts, several sessions, logouts with any cookie.    *)
(***************************************************************************)
NextLogout ==
    \/ Register({"ip1"}, {Ali, Bob}, {GoodPw}, {InviteCode})
    \/ Login({"ip1"}, {Ali}, {GoodPw})
    \/ Logout
    \/ GetMe
    \/ Tick

SpecLogout == Init /\ [][NextLogout]_vars

\* C15: a logout leaves the set of session rows as it is, changes in the
\* row of the presented token nothing but revoked_at (set to the current
\* time if it was null), leaves every other session row and every user row
\* unchanged, so that every other token is accepted after the logout exactly
\* if it was before; and no step of any operation removes a session row.
C15_LogoutRevokesOnlyPresentedSession ==
    /\ [][IsResponse("logout")
            => /\ resp'.status = 200
               /\ DOMAIN auth_sessions' = DOMAIN auth_sessions
               /\ \A id \in DOMAIN auth_sessions :
                      IF id \in SessionsOf(resp'.req.cookie)
                      THEN auth_sessions'[id] =
                               [auth_sessions[id] EXCEPT !.revoked_at =
                                    IF @ = NULL THEN <<now>> ELSE @]
                      ELSE auth_sessions'[id] = auth_sessions[id]
               /\ \A cookie \in Cookies \ {resp'.req.cookie} :
                      Live(cookie) <=> Live(cookie)'
               /\ UNCHANGED users]_vars
    /\ [][DOMAIN auth_sessions \subseteq DOMAIN auth_sessions']_vars

\* after a logout with one token the same user's other token is accepted
C15_Witness ==
    /\ resp.op = "get_me"
    /\ resp.status = 200
    /\ \E id, other \in DOMAIN auth_sessions :
           /\ id \in SessionsOf(resp.req.cookie)
           /\ other # id
           /\ auth_sessions[other].user_id = auth_sessions[id].user_id
           /\ auth_sessions[other].revoked_at # NULL
           /\ auth_sessions[id].revoked_at = NULL

(***************************************************************************)
(* SpecLogin: logins for a known and an unknown username, right and wrong  *)
(* passwords, two client addresses.                                        *)
(***************************************************************************)
NextLogin ==
    \/ Register({"ip1"}, {Ali}, {GoodPw}, {InviteCode})
    \/ Login(IPs, {Ali, Bob}, {GoodPw, OtherPw})
    \/ Tick

SpecLogin == Init /\ [][NextLogin]_vars

LoginUsernames == {Ali, AliMixed, Bob, BadChar}

LoginPasswords == {GoodPw, OtherPw}

\* no account has this username
UnknownUsername(raw_username) ==
    \A id \in DOMAIN users :
        users[id].username # normalize_username(raw_username)

\* an account has this username and the password is not its password
WrongPassword(raw_username, password) ==
    \E id \in DOMAIN users :
        /\ users[id].username = normalize_username(raw_username)
        /\ ~verify_password(password, users[id].password_hash)

\* the failure times of the ip that lie inside the window ending now
RecentFailures(ip) ==
    SelectSeq(failures_of(AUTH_FAILURES_BY_IP, ip),
              LAMBDA ts : ts >= now - AUTH_RATE_LIMIT_WINDOW_SECONDS)

\* a 401 "Invalid credentials." that creates no session, changes no user
\* row and adds the current time, once, to the failures of the ip only
InvalidCredentialsOutcome(ip, result) ==
    /\ result.status = 401
    /\ result.out = [detail |-> "Invalid credentials."]
    /\ result.sessions = auth_sessions
    /\ result.users = users
    /\ result.failures[ip] = Append(RecentFailures(ip), now)
    /\ \A other \in DOMAIN result.failures \ {ip} :
           /\ other \in DOMAIN AUTH_FAILURES_BY_IP
           /\ result.failures[other] = AUTH_FAILURES_BY_IP[other]

\* C16 as stated: in every state and for every client ip, a login for a
\* username that does not exist and a login for an existing username with a
\* wrong password have the same outcome, and that outcome is the 401
\* "Invalid credentials.", no session created and exactly one failure
\* recorded for the ip.
C16_SameInvalidCredentialsOutcome ==
    \A known \in LoginUsernames, q \in LoginPasswords :
        WrongPassword(known, q)
        => \A ip \in IPs, unknown \in LoginUsernames,
              p \in LoginPasswords :
               UnknownUsername(unknown)
               => /\ login_result(ip, unknown, p)
                     = login_result(ip, known, q)
                  /\ InvalidCredentialsOutcome(
                         ip, login_result(ip, unknown, p))

\* C16 amended: the two logins have the same outcome in every state; it is
\* the 401 "Invalid credentials." with no session created and exactly one
\* failure recorded for the ip when the ip has fewer than
\* AUTH_RATE_LIMIT_MAX_FAILURES failures inside the window, and otherwise
\* the 429 of the throttle with no session created and no failure recorded.
C16_SameOutcomeUnlessThrottled ==
    \A known \in LoginUsernames, q \in LoginPasswords :
        WrongPassword(known, q)
        => \A ip \in IPs, unknown \in LoginUsernames,
              p \in LoginPasswords :
               UnknownUsername(unknown)
               => LET result == login_result(ip, unknown, p)
                  IN /\ result = login_result(ip, known, q)
                     /\ IF Len(RecentFailures(ip))
                             < AUTH_RATE_LIMIT_MAX_FAILURES
                        THEN InvalidCredentialsOutcome(ip, result)
                        ELSE /\ result.status = 429
                             /\ result.sessions = auth_sessions
                             /\ result.users = users
                             /\ result.failures[ip] = RecentFailures(ip)

\* a login for an unknown username has just been refused with 401 while an
\* account exists whose password can be got wrong from the same address
C16_Witness ==
    /\ resp.op = "login"
    /\ resp.status = 401
    /\ resp.out = [detail |-> "Invalid credentials."]
    /\ UnknownUsername(resp.req.username)
    /\ WrongPassword(Ali, OtherPw)
    /\ Len(RecentFailures(resp.req.ip)) < AUTH_RATE_LIMIT_MAX_FAILURES
    /\ Len(failures_of(AUTH_FAILURES_BY_IP, resp.req.ip)) >= 1

(***************************************************************************)
(* SpecRedirect: the page routes with and without a session, /auth with    *)
(* every kind of next.                                                     *)
(***************************************************************************)
RawNexts ==
    {NULL, <<<<>>>>, <<<<"/">>>>, <<<<"/", "c">>>>, <<<<"c">>>>,
     <<<<"/", "/", "e">>>>, <<<<"h", ":", "/", "/", "e">>>>,
     <<AuthPath>>, <<AuthPath \o <<"?", "x">>>>, <<AuthPath \o <<"x">>>>,
     <<AuthPath \o <<"#", "x">>>>}

PageQueries == {<<>>, <<"a", "=", "1">>}

NextRedirect ==
    \/ Register({"ip1"}, {Ali}, {GoodPw}, {InviteCode})
    \/ ReadPage(OneCookie, PageQueries)
    \/ ReadAuth(OneCookie, RawNexts)
    \/ Tick

SpecRedirect == Init /\ [][NextRedirect]_vars

\* the character of two hexadecimal digits
CharOfHex(hi, lo) ==
    CHOOSE c \in {"/", "?", "=", "&", ":", "#", " ", "\\"} :
        HexOf(c) = <<hi, lo>>

\* urllib.parse.unquote, as the query string of /auth is decoded
RECURSIVE unquote(_)
unquote(s) ==
    IF s = <<>> THEN <<>>
    ELSE IF Head(s) = "%" /\ Len(s) >= 3
         THEN <<CharOfHex(s[2], s[3])>> \o unquote(SubSeq(s, 4, Len(s)))
         ELSE <<Head(s)>> \o unquote(Tail(s))

\* the path of a target: what precedes its first "?" or "#"
PathOf(t) ==
    LET stops == {i \in 1..Len(t) : t[i] \in {"?", "#"}}
    IN IF stops = {} THEN t
       ELSE SubSeq(t, 1, (CHOOSE i \in stops : \A j \in stops : i <= j) - 1)

StartsWithOneSlash(t) ==
    /\ Len(t) >= 1
    /\ t[1] = "/"
    /\ Len(t) >= 2 => t[2] # "/"

PointsAtAuthPage(t) == PathOf(t) = AuthPath

\* a target on this host that is not the auth page
SafeTarget(t) == StartsWithOneSlash(t) /\ ~PointsAtAuthPage(t)

NextPrefix == AuthPath \o <<"?", "n", "e", "x", "t", "=">>

\* C17: a page route asked without a valid session answers 302 to /auth
\* with the requested path and query string as the quoted next parameter;
\* for every raw next, _sanitize_next_path returns the raw value when it
\* starts with exactly one "/" and does not point at the auth page, and "/"
\* otherwise; so the 302 that /auth gives to a valid session goes to a
\* target that starts with exactly one "/" and is not the auth page.
C17_RedirectTargetsAreSafe ==
    /\ [][(IsResponse("read_root") \/ IsResponse("read_chat"))
            /\ ~HasValidSessionRow(resp'.req.cookie)
            => /\ resp'.status = 302
               /\ StartsWith(resp'.out.location, NextPrefix)
               /\ unquote(SubSeq(resp'.out.location, Len(NextPrefix) + 1,
                                 Len(resp'.out.location)))
                    = build_next_path(resp'.req.path, resp'.req.query)]_vars
    /\ [][IsResponse("read_auth")
            => sanitize_next_path(resp'.req.next) =
                   IF /\ resp'.req.next # NULL
                      /\ SafeTarget(resp'.req.next[1])
                   THEN resp'.req.next[1]
                   ELSE <<"/">>]_vars
    /\ [][IsResponse("read_auth") /\ resp'.status = 302
            => /\ HasValidSessionRow(resp'.req.cookie)
               /\ SafeTarget(resp'.out.location)]_vars

(***************************************************************************)
(* SpecChatLangs: conversations started with every combination of the      *)
(* language fields, by an account that sets its preferences.               *)
(***************************************************************************)
LangOptions == {NULL, <<"">>, <<"es">>}

ChatLangPayloads ==
    {[ChatPayload(NULL) EXCEPT !.language = language,
                               !.is_primary_lang = is_primary_lang,
                               !.primary_lang = primary_lang,
                               !.secondary_lang = secondary_lang] :
        language \in {"", "en", "es"}, is_primary_lang \in BOOLEAN,
        primary_lang \in LangOptions, secondary_lang \in LangOptions}

ProfilePayloads ==
    {[preferred_primary_lang |-> p, preferred_secondary_lang |-> q] :
        p \in {NULL, <<" EN">>, <<"Es ">>}, q \in {NULL, <<" EN">>, <<"">>}}

NextChatLangs ==
    \/ Register({"ip1"}, {Ali}, {GoodPw}, {InviteCode})
    \/ UpdateMe({<<1>>}, ProfilePayloads)
    \/ Chat({<<1>>}, ChatLangPayloads, {<<Hola>>})

SpecChatLangs == Init /\ [][NextChatLangs]_vars

\* C18: every conversation row that POST /api/chat creates, and so every
\* conversation row, has primary_lang different from secondary_lang,
\* whatever language, is_primary_lang, primary_lang and secondary_lang the
\* request carries and whatever preferences the account has stored.
C18_PrimaryDiffersFromSecondary ==
    /\ [][IsResponse("chat") /\ resp'.status = 200
            /\ resp'.req.payload.conversation_id = NULL
            => /\ resp'.out.conversation_id \in
                      DOMAIN conversations' \ DOMAIN conversations
               /\ conversations'[resp'.out.conversation_id].primary_lang
                    # conversations'[resp'.out.conversation_id]
                          .secondary_lang]_vars
    /\ [](\A id \in DOMAIN conversations :
            conversations[id].primary_lang
                # conversations[id].secondary_lang)

\* the request and the stored preferences lead to the same language twice,
\* here "en" from the stored primary and from the fallback of the
\* secondary, and the row holds "en" and "es"
C18_Witness ==
    /\ resp.op = "chat"
    /\ resp.status = 200
    /\ resp.req.payload.primary_lang = NULL
    /\ resp.req.payload.secondary_lang = <<"">>
    /\ resp.req.payload.is_primary_lang
    /\ \E id \in DOMAIN users :
           /\ users[id].preferred_primary_lang = <<"en">>
           /\ users[id].preferred_secondary_lang = <<"">>
    /\ conversations[resp.out.conversation_id].primary_lang = "en"
    /\ conversations[resp.out.conversation_id].secondary_lang = "es"

(***************************************************************************)
(* POST /api/chat in SpecChat: conversation ids that do not exist or       *)
(* belong to the other account.                                            *)
(***************************************************************************)
\* the id names no conversation of a user of this cookie
NotOwnConversation(cookie, conversation_id) ==
    \/ conversation_id \notin DOMAIN conversations
    \/ \A B \in UsersOfCookie(cookie) :
           conversations[conversation_id].user_id # <<B>>

\* C19: a POST /api/chat that carries a valid session and a conversation_id
\* which names no conversation, or a conversation of another user, is
\* answered 404, leaves the conversations and the messages exactly as they
\* were, and makes no call of the LLM.
C19_ForeignConversationIs404 ==
    [][/\ IsResponse("chat")
       /\ HasValidSessionRow(resp'.req.cookie)
       /\ resp'.req.payload.conversation_id # NULL
       /\ NotOwnConversation(resp'.req.cookie,
                             resp'.req.payload.conversation_id[1])
       => /\ resp'.status = 404
          /\ UNCHANGED <<conversations, messages>>
          /\ resp'.out.llm_calls = <<>>]_vars

\* a chat turn aimed at the other account's conversation, which has
\* messages, is refused
C19_Witness ==
    /\ resp.op = "chat"
    /\ resp.status = 404
    /\ resp.req.payload.conversation_id # NULL
    /\ resp.req.payload.conversation_id[1] \in DOMAIN conversations
    /\ UsersOfCookie(resp.req.cookie) # {}
    /\ NotOwnConversation(resp.req.cookie,
                          resp.req.payload.conversation_id[1])
    /\ \E i \in 1..Len(messages) :
           messages[i].conversation_id = resp.req.payload.conversation_id[1]

\* a chat turn aimed at an id that names no conversation is refused while
\* the account has a conversation of its own
C19_WitnessUnknownId ==
    /\ resp.op = "chat"
    /\ resp.status = 404
    /\ resp.req.payload.conversation_id # NULL
    /\ resp.req.payload.conversation_id[1] \notin DOMAIN conversations
    /\ \E id \in DOMAIN conversations, B \in UsersOfCookie(resp.req.cookie) :
           conversations[id].user_id = <<B>>

(***************************************************************************)
(* SpecChatReplies: chat turns of one account whose LLM call raises,       *)
(* returns nothing but white space, or returns text.                       *)
(***************************************************************************)
\* NULL: the call raised (error, timeout, no text in the answer)
LlmReplies == {NULL, <<<<>>>>, <<<<" ", "\n">>>>, <<Hola>>}

NextChatReplies ==
    \/ Register({"ip1"}, {Ali}, {GoodPw}, {InviteCode})
    \/ Chat(OneCookie, {ChatPayload(id) : id \in ConversationIds},
            LlmReplies)
    \/ GetConversationHistory(OneCookie)
    \/ Tick

SpecChatReplies == Init /\ [][NextChatReplies]_vars

\* the LLM call of the turn failed: it raised, or its text is empty or
\* white space only
LlmFailed(reply) ==
    \/ reply = NULL
    \/ \A i \in 1..Len(reply[1]) : reply[1][i] \in Whitespace

\* C20: a chat request that reaches the LLM call (valid session, no
\* conversation_id or one of its own conversations) and whose LLM call
\* fails is answered 200 with the fixed apology as assistant_text, and the
\* message it appends last, to the conversation of the response, is the
\* assistant message with that apology as text.
C20_LlmFailureGivesApology ==
    [][/\ IsResponse("chat")
       /\ HasValidSessionRow(resp'.req.cookie)
       /\ resp'.req.payload.conversation_id # NULL
            => ~NotOwnConversation(resp'.req.cookie,
                                   resp'.req.payload.conversation_id[1])
       /\ LlmFailed(resp'.req.reply)
       => /\ resp'.status = 200
          /\ resp'.out.assistant_text
               = <<"Sorry something went wrong. Let's try again!">>
          /\ Len(messages') > Len(messages)
          /\ SubSeq(messages', 1, Len(messages)) = messages
          /\ LET last == messages'[Len(messages')]
             IN /\ last.role = "assistant"
                /\ last.text = resp'.out.assistant_text
                /\ last.conversation_id = resp'.out.conversation_id
          /\ \A i \in (Len(messages) + 1)..(Len(messages') - 1) :
                 messages'[i].role = "user"]_vars

\* the LLM returned white space only on a turn of an existing conversation,
\* and the apology was stored after the user's message
C20_Witness ==
    /\ resp.op = "chat"
    /\ resp.status = 200
    /\ resp.req.reply = <<<<" ", "\n">>>>
    /\ resp.req.payload.conversation_id # NULL
    /\ Len(messages) >= 4
    /\ messages[Len(messages)].text = Apology
    /\ messages[Len(messages) - 1].role = "user"

(***************************************************************************)
(* SpecRefreshFail: refreshes that fail at the cooldown, at the feed, at   *)
(* the generation and inside the replacement, beside ones that succeed.    *)
(***************************************************************************)
NextRefreshFail ==
    \/ Register({"ip1"}, {Ali}, {GoodPw}, {InviteCode})
    \/ RefreshBegin(OneCookie, {"ip1"}, Feeds, LlmStarterOutcomes)
    \/ TxnDelete
    \/ TxnInsert
    \/ TxnCommit
    \/ TxnAbort
    \/ RefreshFinish
    \/ Tick

SpecRefreshFail == Init /\ [][NextRefreshFail]_vars

\* the stored starters when the request that is answered in this step began:
\* the request inside its replacement began when the transaction did, every
\* other failing request is answered in the step it arrives in
StartersAtBegin ==
    IF refresh_txn # NULL /\ refresh_txn' = NULL THEN refresh_txn[1].previous
    ELSE conversation_starters

\* C21: when a refresh is answered with anything but 200 (401, the 429 of
\* the cooldown, the 502 of an empty or failed feed, the 500 of no starter
\* producible, the 500 of a failed replacement), the stored starters are the
\* ones stored when the request began and the refresh log is unchanged; the
\* refresh log changes only in the step that answers 200, after the
\* replacement has been committed, and only in the entry of the request's
\* ip.
C21_FailedRefreshChangesNothing ==
    /\ [][IsResponse("refresh") /\ resp'.status # 200
            => /\ conversation_starters' = StartersAtBegin
               /\ refresh_log' = refresh_log]_vars
    /\ [][refresh_log' # refresh_log
            => /\ IsResponse("refresh")
               /\ resp'.status = 200
               /\ refresh_txn # NULL
               /\ refresh_txn[1].pc = "committed"
               /\ conversation_starters =
                      {refresh_txn[1].payload[i] :
                          i \in 1..Len(refresh_txn[1].payload)}
               /\ \A ip \in DOMAIN refresh_log :
                      ip # resp'.req.ip
                        => /\ ip \in DOMAIN refresh_log'
                           /\ refresh_log'[ip] = refresh_log[ip]]_vars

\* the replacement fails after its DELETE, with starters stored and the ip
\* in the refresh log
C21_Witness ==
    /\ resp.op = "refresh"
    /\ resp.status = 500
    /\ resp.req.reddit_posts # NULL
    /\ resp.req.llm_starters # NULL
    /\ conversation_starters # {}
    /\ resp.req.ip \in DOMAIN refresh_log

\* the feed is empty, or no starter can be made from it, while starters are
\* stored
C21_WitnessFeed ==
    /\ resp.op = "refresh"
    /\ resp.status \in {500, 502}
    /\ resp.req.llm_starters = NULL
    /\ resp.req.reddit_posts \in {<<<<>>>>, <<<<PostBlank>>>>}
    /\ conversation_starters # {}

\* a post of the feed has a title that is not blank
HasTitledPost(reddit_posts) ==
    /\ reddit_posts # NULL
    /\ \E i \in 1..Len(reddit_posts[1]) : Strip(reddit_posts[1][i].title) # <<>>

\* C22: a refresh that is past the session check and the cooldown, whose
\* feed has a post with a title and whose LLM step fails, is answered 200
\* and stores a non-empty set of starters that are all tagged
\* fallback_stub; a refresh answered 200 whose LLM step succeeded stores
\* starters that are all tagged reddit_llm.
C22_FallbackAndLlmTags ==
    /\ [][(/\ IsResponse("refresh")
           /\ resp'.status \notin {401, 429}
           /\ resp'.req.llm_starters = NULL
           /\ HasTitledPost(resp'.req.reddit_posts))
            => /\ resp'.status = 200
               /\ resp'.out.count > 0
               /\ Cardinality(conversation_starters') = resp'.out.count
               /\ \A row \in conversation_starters' :
                      row.generated_by = "fallback_stub"]_vars
    /\ [][(/\ IsResponse("refresh")
           /\ resp'.status = 200
           /\ resp'.req.llm_starters # NULL)
            => /\ Cardinality(conversation_starters') = resp'.out.count
               /\ \A row \in conversation_starters' :
                      row.generated_by = "reddit_llm"]_vars

\* the LLM step failed and the starters of the fallback replaced a set that
\* the LLM had generated
C22_Witness ==
    /\ resp.op = "refresh"
    /\ resp.status = 200
    /\ resp.req.llm_starters = NULL
    /\ conversation_starters # {}
    /\ \A row \in conversation_starters : row.generated_by = "fallback_stub"
    /\ \E row \in conversation_starters : row.id > 1

\* the LLM step succeeded
C22_WitnessLlm ==
    /\ resp.op = "refresh"
    /\ resp.status = 200
    /\ resp.req.llm_starters # NULL
    /\ \E row \in conversation_starters : row.generated_by = "reddit_llm"

\* the rows of a conversation in the messages table, in insertion order
MessagesOf(conversation_id) ==
    SelectSeq(messages, LAMBDA m : m.conversation_id = conversation_id)

\* C23: every 200 of GET /api/conversations/{id} returns all the messages
\* stored for the conversation, in ascending creation order.
C23_HistoryIsComplete ==
    [][IsResponse("get_conversation_history") /\ resp'.status = 200
         => /\ resp'.out.messages = MessagesOf(resp'.req.conversation_id)
            /\ \A i, j \in 1..Len(resp'.out.messages) :
                   i < j => resp'.out.messages[i].id
                              < resp'.out.messages[j].id]_vars

(***************************************************************************)
(* SpecTouch: GET /api/me await by await, with a touch_user that can raise *)
(***************************************************************************)
NextTouch ==
    \/ Register({"ip1"}, {Ali, Bob}, {GoodPw}, {InviteCode})
    \/ GetMe
    \/ MeBegin({<<1>>, <<2>>})
    \/ MeExtend
    \/ MeFinish
    \/ MeTouchRaises
    \/ MeTouchPropagates
    \/ Tick

SpecTouch == Init /\ [][NextTouch]_vars

\* C24: a request whose session was accepted and extended and whose
\* touch_user raised is still answered with its normal result, the 200 of
\* GET /api/me with the user of the session.
C24_TouchFailureIsSwallowed ==
    [][/\ auth_inflight # NULL
       /\ auth_inflight[1].pc = "touch_raised"
       /\ auth_inflight' = NULL
       => /\ resp'.seq # resp.seq
          /\ resp'.op = "get_me"
          /\ resp'.status = 200
          /\ resp'.out = [user_id |-> auth_inflight[1].user_id]]_vars

(***************************************************************************)
(* SpecTranslateFail: batches of which single items fail at the LLM        *)
(***************************************************************************)
FailingItems == {{}, {"new"}, {"hello"}}

NextTranslateFail ==
    \/ Register({"ip1"}, {Ali}, {GoodPw}, {InviteCode})
    \/ Translate({<<1>>},
                 {[text |-> text, is_str |-> FALSE, target_lang |-> "es"] :
                     text \in {<<"hello">>, <<"new", "hello">>,
                               <<"hello", "bye", "new">>}},
                 FailingItems)
    \/ Tick

SpecTranslateFail == Init /\ [][NextTranslateFail]_vars

\* the statuses of a failure mapped as one of the upstream service, as the
\* refresh handler maps the failure of the feed (502)
UpstreamFailureStatuses == {502, 503, 504}

\* the request of the response called the LLM for a suffix of which an item
\* failed
SuffixItemFailed(r) ==
    /\ r.out # NULL
    /\ r.out.llm_calls # <<>>
    /\ \E i \in 1..Len(r.out.llm_calls[1]) :
           r.out.llm_calls[1][i] \in r.req.failing

\* C25: when the translation of an item of the uncached suffix fails, the
\* cache is left as it was, no translation is returned, and the response is
\* an error mapped as an upstream failure.
C25_FailedBatchSavesNothingAndIsMapped ==
    [][IsResponse("translate") /\ SuffixItemFailed(resp')
         => /\ message_translations' = message_translations
            /\ resp'.out.translated_text = NULL
            /\ resp'.status \in UpstreamFailureStatuses]_vars

(***************************************************************************)
(* SpecSources: refreshes whose feed is gathered from three subreddits,    *)
(* each of which fails or returns its own posts.                           *)
(***************************************************************************)
PostC ==
    [title |-> <<"C">>, selftext |-> <<>>, score |-> 7,
     subreddit |-> "science", url |-> "https://reddit.com/c"]

\* the posts of each configured subreddit, in the configured order
SourcePosts == <<<<PostA>>, <<PostC, PostA>>, <<PostBlank>>>>

\* per subreddit, the exception or the list that gather returns
SourceOutcomes ==
    {results \in [1..Len(SourcePosts) -> {NULL} \cup
                     {<<SourcePosts[i]>> : i \in 1..Len(SourcePosts)}] :
        \A i \in 1..Len(SourcePosts) :
            results[i] \in {NULL, <<SourcePosts[i]>>}}

RefreshFromSources(cookies, ips, outcomes, llm_outcomes) ==
    Refresh(cookies, ips,
            {<<fetch_multiple_subreddits(results)>> : results \in outcomes},
            llm_outcomes)

NextSources ==
    \/ Register({"ip1"}, {Ali}, {GoodPw}, {InviteCode})
    \/ RefreshFromSources(OneCookie, {"ip1"}, SourceOutcomes,
                          LlmStarterOutcomes)
    \/ Tick

SpecSources == Init /\ [][NextSources]_vars

\* the posts of the subreddits that succeeded, as (subreddit, index) pairs
Slots(results) ==
    UNION {{<<i, j>> : j \in 1..Len(results[i][1])} :
              i \in {k \in 1..Len(results) : results[k] # NULL}}

\* the place of a pair when the pairs are put in the order of the subreddits
\* and, inside one subreddit, of its posts
PlaceOf(results, s) ==
    Cardinality({q \in Slots(results) :
                    q[1] < s[1] \/ (q[1] = s[1] /\ q[2] <= s[2])})

\* posts is the concatenation, in the order of the subreddits, of the lists
\* of exactly those that succeeded
IsConcatOfSucceeded(posts, results) ==
    /\ Len(posts) = Cardinality(Slots(results))
    /\ \A s \in Slots(results) :
           posts[PlaceOf(results, s)] = results[s[1]][1][s[2]]

\* C26: whichever subreddits fail, fetch_multiple_subreddits returns the
\* concatenation, in the configured order, of the posts of exactly the ones
\* that succeeded; and a refresh that is past the session check and the
\* cooldown is answered with the feed's 502 exactly when that concatenation
\* is empty.
C26_FeedIsConcatOfSucceededSources ==
    /\ [](\A results \in SourceOutcomes :
              IsConcatOfSucceeded(fetch_multiple_subreddits(results),
                                  results))
    /\ [][IsResponse("refresh") /\ resp'.status \notin {401, 429}
            => /\ \E results \in SourceOutcomes :
                      /\ resp'.req.reddit_posts # NULL
                      /\ IsConcatOfSucceeded(resp'.req.reddit_posts[1],
                                             results)
                      /\ resp'.status = 502
                           <=> \A i \in 1..Len(results) :
                                   results[i] = NULL \/ results[i][1] = <<>>
          ]_vars

\* the second subreddit failed, the first and the third did not, and the
\* refresh went on with the posts of these two, in their order
C26_Witness ==
    /\ resp.op = "refresh"
    /\ resp.status = 200
    /\ resp.req.reddit_posts = <<<<PostA, PostBlank>>>>
    /\ resp.req.reddit_posts[1]
         = fetch_multiple_subreddits(
               <<<<SourcePosts[1]>>, NULL, <<SourcePosts[3]>>>>)
    /\ conversation_starters # {}

(***************************************************************************)
(* SpecRegisterSteps: register requests that overlap                       *)
(***************************************************************************)
NextRegisterSteps ==
    \/ RegisterArrive({"ip1"}, {Ali, AliMixed, Bob, BadChar}, {GoodPw},
                      {InviteCode})
    \/ RegisterInvite
    \/ RegisterLookup
    \/ RegisterCreate
    \/ RegisterSession
    \/ Tick

SpecRegisterSteps == Init /\ [][NextRegisterSteps]_vars

\* ^[a-z0-9_]{3,24}$
MatchesUsernamePattern(s) ==
    /\ Len(s) \in 3..24
    /\ \A i \in 1..Len(s) :
           s[i] \in {"a", "b", "c", "d", "e", "f", "g", "h", "i", "j", "k",
                     "l", "m", "n", "o", "p", "q", "r", "s", "t", "u", "v",
                     "w", "x", "y", "z", "0", "1", "2", "3", "4", "5", "6",
                     "7", "8", "9", "_"}

\* C27: in every reachable state, register requests overlapping or not,
\* every stored username matches ^[a-z0-9_]{3,24}$ and no two user rows
\* have the same username.
C27_UsernamesValidAndUnique ==
    /\ \A id \in DOMAIN users : MatchesUsernamePattern(users[id].username)
    /\ \A id, other \in DOMAIN users :
           users[id].username = users[other].username => id = other

\* two requests for one username were both past the lookup; the second
\* INSERT was refused and its request answered 500
C27_Witness ==
    /\ resp.op = "register"
    /\ resp.status = 500
    /\ \E id \in DOMAIN users :
           users[id].username = normalize_username(resp.req.username)
    /\ Cardinality(DOMAIN users) = 2

\* the request carries the configured invite code
ValidInvite(req) ==
    /\ beta_invite # NULL
    /\ beta_invite[1] = <<"sha256$", Strip(req.invite_code)>>

\* C28: a register request with the valid invite code, from an ip that is
\* not blocked, is answered 422 when its normalized username does not match
\* ^[a-z0-9_]{3,24}$ or its password is shorter than PASSWORD_MIN_LENGTH,
\* and 409 when username and password are well-formed and the username is
\* taken; in both cases users and auth_sessions are left as they were.
C28_Register422And409CreateNothing ==
    /\ [][/\ IsResponse("register")
          /\ ValidInvite(resp'.req)
          /\ ~RecentlyFailedMaxTimes(resp'.req.ip)
          /\ \/ ~MatchesUsernamePattern(Lower(Strip(resp'.req.username)))
             \/ Len(resp'.req.password) < PASSWORD_MIN_LENGTH
          => /\ resp'.status = 422
             /\ UNCHANGED <<users, auth_sessions>>]_vars
    /\ [][/\ IsResponse("register")
          /\ ValidInvite(resp'.req)
          /\ ~RecentlyFailedMaxTimes(resp'.req.ip)
          /\ MatchesUsernamePattern(Lower(Strip(resp'.req.username)))
          /\ Len(resp'.req.password) >= PASSWORD_MIN_LENGTH
          /\ UserRowsNamed(users, resp'.req.username) # {}
          => /\ resp'.status = 409
             /\ UNCHANGED <<users, auth_sessions>>]_vars

\* a too short username with a good password is refused while an account
\* exists
C28_Witness ==
    /\ resp.op = "register"
    /\ resp.status = 422
    /\ beta_invite # NULL
    /\ ValidInvite(resp.req)
    /\ resp.req.username = TooShort
    /\ resp.req.password = GoodPw
    /\ users # <<>>

\* a short password with a free, well-formed username
C28_WitnessPassword ==
    /\ resp.op = "register"
    /\ resp.status = 422
    /\ beta_invite # NULL
    /\ ValidInvite(resp.req)
    /\ resp.req.username = Bob
    /\ resp.req.password = ShortPw
    /\ UserRowsNamed(users, Bob) = {}

\* a taken username
C28_WitnessTaken ==
    /\ resp.op = "register"
    /\ resp.status = 409
    /\ beta_invite # NULL
    /\ ValidInvite(resp.req)
    /\ Cardinality(UserRowsNamed(users, resp.req.username)) = 1

(***************************************************************************)
(* SpecRefreshOverlap: refresh requests of one ip that overlap             *)
(***************************************************************************)
NextRefreshOverlap ==
    \/ Register({"ip1"}, {Ali}, {GoodPw}, {InviteCode})
    \/ RefreshArrive(OneCookie, {"ip1"})
    \/ RefreshGenerate({<<<<>>>>, <<<<PostA>>>>}, LlmStarterOutcomes)
    \/ TxnDelete
    \/ TxnInsert
    \/ TxnCommit
    \/ RefreshFinish
    \/ Tick

SpecRefreshOverlap == Init /\ [][NextRefreshOverlap]_vars

\* C29: whatever the interleaving of the refresh requests of an ip, a
\* refresh of that ip is answered 200 only when the cooldown has passed
\* since the last refresh of that ip that was answered 200.
C29_SuccessfulRefreshesAreCooldownApart ==
    [][/\ IsResponse("refresh")
       /\ resp'.status = 200
       /\ resp'.req.ip \in DOMAIN refresh_log
       => now - refresh_log[resp'.req.ip] >= cooldown_delta]_vars

(***************************************************************************)
(* SpecAuthOverlap: register and login requests of one ip that overlap     *)
(***************************************************************************)
NextAuthOverlap ==
    \/ RegisterArrive({"ip1"}, {Ali}, {GoodPw}, {InviteCode, WrongCode})
    \/ RegisterInvite
    \/ RegisterLookup
    \/ RegisterCreate
    \/ RegisterSession
    \/ LoginArrive({"ip1"}, {Ali, BadChar}, {GoodPw, OtherPw})
    \/ LoginVerify
    \/ LoginSession
    \/ Tick

SpecAuthOverlap == Init /\ [][NextAuthOverlap]_vars

\* the failures recorded for the ip that lie inside the window that ends now
FailuresInWindow(ip) ==
    {i \in 1..Len(AUTH_FAILURES_BY_IP[ip]) :
        AUTH_FAILURES_BY_IP[ip][i] >= now - AUTH_RATE_LIMIT_WINDOW_SECONDS}

\* C30: in every reachable state, overlapping login and register requests
\* of one ip included, the failure map holds at most
\* AUTH_RATE_LIMIT_MAX_FAILURES timestamps of an ip inside the current
\* window.
C30_FailuresInWindowAtMostMax ==
    \A ip \in DOMAIN AUTH_FAILURES_BY_IP :
        Cardinality(FailuresInWindow(ip)) <= AUTH_RATE_LIMIT_MAX_FAILURES

(***************************************************************************)
(* SpecFailOverlap: overlapping register and login requests of one ip,     *)
(* the logins with a wrong password                                        *)
(***************************************************************************)
NextFailOverlap ==
    \/ RegisterArrive({"ip1"}, {Ali}, {GoodPw}, {InviteCode, WrongCode})
    \/ RegisterInvite
    \/ RegisterLookup
    \/ RegisterCreate
    \/ RegisterSession
    \/ LoginArrive({"ip1"}, {Ali}, {OtherPw})
    \/ LoginVerify
    \/ Tick

SpecFailOverlap == Init /\ [][NextFailOverlap]_vars

\* the timestamps of the ip in the map F that lie inside the window ending
\* at t, in the order of the list; none when the ip has no entry
RecentOf(F, ip, t) ==
    IF ip \in DOMAIN F
    THEN SelectSeq(F[ip], LAMBDA ts : ts >= t - AUTH_RATE_LIMIT_WINDOW_SECONDS)
    ELSE <<>>

\* the step answers a failed auth attempt of the ip
IsFailedAttemptOf(ip) ==
    IsAuthResponse /\ resp'.status = 401 /\ resp'.req.ip = ip

\* C31: with login and register requests of one ip overlapping, every
\* failed attempt (401) appends exactly one timestamp, the current time, to
\* the recent timestamps of its ip, and no step other than a successful
\* auth of the ip removes or reorders a timestamp that is still inside the
\* window.
C31_EachFailureAppendsOneNoneLost ==
    /\ [][\A ip \in IPs :
            IsFailedAttemptOf(ip)
              => /\ ip \in DOMAIN AUTH_FAILURES_BY_IP'
                 /\ AUTH_FAILURES_BY_IP'[ip]
                      = Append(RecentOf(AUTH_FAILURES_BY_IP, ip, now), now)
         ]_vars
    /\ [][\A ip \in IPs :
            ~IsFailedAttemptOf(ip)
            /\ ~(IsAuthResponse /\ resp'.status = 200 /\ resp'.req.ip = ip)
              => RecentOf(AUTH_FAILURES_BY_IP', ip, now')
                   = RecentOf(AUTH_FAILURES_BY_IP, ip, now')]_vars

\* three failed attempts of one ip overlapped (one more than the gate lets
\* through one after the other) and each left its timestamp
C31_Witness ==
    /\ resp.op \in {"login", "register"}
    /\ resp.status = 401
    /\ "ip1" \in DOMAIN AUTH_FAILURES_BY_IP
    /\ Len(AUTH_FAILURES_BY_IP["ip1"]) = AUTH_RATE_LIMIT_MAX_FAILURES + 1
    /\ AUTH_FAILURES_BY_IP["ip1"][1] < now

(***************************************************************************)
(* SpecRevoke: logouts beside protected requests that are served await by  *)
(* await                                                                   *)
(***************************************************************************)
NextRevoke ==
    \/ Register({"ip1"}, {Ali}, {GoodPw}, {InviteCode})
    \/ Login({"ip1"}, {Ali}, {GoodPw})
    \/ Logout
    \/ MeBegin({<<1>>, <<2>>})
    \/ MeExtend
    \/ MeFinish
    \/ Tick

SpecRevoke == Init /\ [][NextRevoke]_vars

\* C32: a session row whose revoked_at is set is never changed again, in
\* revoked_at or in expires_at, and never removed, whichever operation runs:
\* a second logout, or the extend of a protected request that loaded the
\* session before the logout; and the session lookup does not return it.
C32_RevokedSessionIsFrozen ==
    /\ [][\A id \in DOMAIN auth_sessions :
            auth_sessions[id].revoked_at # NULL
              => /\ id \in DOMAIN auth_sessions'
                 /\ auth_sessions'[id] = auth_sessions[id]]_vars
    /\ [](\A id \in DOMAIN auth_sessions :
            auth_sessions[id].revoked_at # NULL
              => get_active_session_by_token_hash(
                     auth_sessions, users, auth_sessions[id].token_hash, now)
                   # <<id>>)

\* a protected request loaded the session, the logout revoked it, and then
\* the request's extend ran: the row keeps the expiry it had
C32_Witness ==
    /\ auth_inflight # NULL
    /\ auth_inflight[1].pc = "touch"
    /\ \E id \in DOMAIN auth_sessions :
           /\ auth_sessions[id].token_hash
                = hash_token(auth_inflight[1].cookie[1])
           /\ auth_sessions[id].revoked_at # NULL
           /\ auth_sessions[id].expires_at < auth_inflight[1].expires_at

\* a session is logged out a second time
C32_WitnessSecondLogout ==
    /\ resp.op = "logout"
    /\ resp.req.cookie # NULL
    /\ \E id \in DOMAIN auth_sessions :
           /\ auth_sessions[id].token_hash = hash_token(resp.req.cookie[1])
           /\ auth_sessions[id].revoked_at # NULL
           /\ auth_sessions[id].revoked_at[1] < now

\* C33: a session whose expires_at the clock has reached stays expired: no
\* step, the extend of a request that looked the session up just before it
\* expired included, leaves it with an expires_at in the future.
C33_ExpiredSessionStaysExpired ==
    [][\A id \in DOMAIN auth_sessions :
          auth_sessions[id].expires_at <= now
            => /\ id \in DOMAIN auth_sessions'
               /\ auth_sessions'[id].expires_at <= now']_vars

----------------------------------------------------------------------------
\* Registration whose session INSERT may fail

NextRegisterRetry ==
    \/ RegisterArrive({"ip1"}, {Ali, Bob}, {GoodPw}, {InviteCode})
    \/ RegisterInvite
    \/ RegisterLookup
    \/ RegisterCreate
    \/ RegisterSession
    \/ RegisterSessionFails
    \/ Tick

SpecRegisterRetry == Init /\ [][NextRegisterRetry]_vars

\* the pending register requests that the step answers
AnsweredRegisters ==
    {i \in 1..Len(pending) :
        /\ pending[i].op = "register"
        /\ pending' = Drop(pending, i)
        /\ pending[i].req = resp'.req}

\* C34: a register request answered with an error has left no row in the
\* users table: the request answered is never one whose user INSERT has
\* already been committed (the 500 after a succeeded insert included), and
\* the answering step itself leaves the table as it is.
C34_RegisterErrorLeavesUsersUnchanged ==
    [][(IsResponse("register") /\ resp'.status # 200)
          => /\ users' = users
             /\ \A i \in AnsweredRegisters :
                    pending[i].pc # "create_session"]_vars

\* C35: a register request with the valid invite code, a valid password
\* and a well-formed username, overlapping another request for the same
\* normalized username or not, is answered 200 or with the conflict error
\* 409.
C35_OverlappingRegistersGet200Or409 ==
    [][(/\ IsResponse("register")
        /\ MatchesUsernamePattern(normalize_username(resp'.req.username))
        /\ ValidInviteAndPassword(resp'.req))
          => resp'.status \in {200, 409}]_vars

----------------------------------------------------------------------------
\* Chat turns of one account with payloads of several shapes

HolaPadded == <<" ", "h", "o", "l", "a", " ">>

\* the entries of payload.messages: one padded user message; a user
\* message, a reply and a blank user message; no user message at all
TurnMessages ==
    {<<[role |-> "user", text |-> HolaPadded]>>,
     <<[role |-> "user", text |-> Hola],
       [role |-> "assistant", text |-> <<"s", "i">>],
       [role |-> "user", text |-> <<" ">>]>>,
     <<[role |-> "assistant", text |-> <<"s", "i">>]>>}

TurnPayloads ==
    {[ChatPayload(id) EXCEPT !.messages = msgs] :
        id \in {NULL, <<1>>}, msgs \in TurnMessages}

NextChatTurns ==
    \/ Register({"ip1"}, {Ali}, {GoodPw}, {InviteCode})
    \/ Chat(OneCookie, TurnPayloads, {<<Hola>>})
    \/ GetConversationHistory(OneCookie)
    \/ Tick

SpecChatTurns == Init /\ [][NextChatTurns]_vars

\* the rows a step appended to messages
AppendedRows == SubSeq(messages', Len(messages) + 1, Len(messages'))

\* row is the user message of the request: its text is the trimmed text of
\* the last user-role entry whose trimmed text is not empty
IsUserRowOf(row, payload) ==
    /\ row.role = "user"
    /\ \E i \in 1..Len(payload.messages) :
           /\ payload.messages[i].role = "user"
           /\ Strip(payload.messages[i].text) # <<>>
           /\ \A j \in (i + 1)..Len(payload.messages) :
                  \/ payload.messages[j].role # "user"
                  \/ Strip(payload.messages[j].text) = <<>>
           /\ row.text = Strip(payload.messages[i].text)

HasUserText(payload) ==
    \E i \in 1..Len(payload.messages) :
        /\ payload.messages[i].role = "user"
        /\ Strip(payload.messages[i].text) # <<>>

C36_WitnessNoUserText ==
    /\ resp.op = "chat"
    /\ resp.status = 200
    /\ ~HasUserText(resp.req.payload)
    /\ Len(messages) = 3
    /\ messages[3].role = "assistant"
    /\ messages[2].role = "assistant"

----------------------------------------------------------------------------
\* Refreshes whose LLM answer is sanitized by the code

LlmStarterC ==
    [title |-> <<"V">>, assistant_opening |-> <<" ", "O", "k">>,
     subreddit |-> "science", source_url |-> "https://reddit.com/d"]

LlmStarterNoTitle ==
    [title |-> <<" ">>, assistant_opening |-> <<"H", "m">>,
     subreddit |-> "science", source_url |-> "https://reddit.com/e"]

\* the parsed answers of the LLM: the call raised; no entry; only an entry
\* without a title; one usable entry; more usable entries than asked for
RawStarterAnswers ==
    {NULL, <<<<>>>>, <<<<LlmStarterNoTitle>>>>, <<<<LlmStarter>>>>,
     <<<<LlmStarterNoTitle, LlmStarter, LlmStarterB, LlmStarterC>>>>}

NextStarterSets ==
    \/ Register({"ip1"}, {Ali}, {GoodPw}, {InviteCode})
    \/ Refresh({<<1>>}, IPs, {<<<<PostBlank>>>>, <<<<PostBlank, PostA>>>>},
               {generate_conversation_starters_from_posts(raw, STARTER_COUNT) :
                   raw \in RawStarterAnswers})
    \/ ListStarters({<<1>>})
    \/ Tick

SpecStarterSets == Init /\ [][NextStarterSets]_vars

StarterSetWellFormed(S) ==
    /\ Cardinality(S) \in 1..STARTER_COUNT
    /\ {row.rank : row \in S} = 0..(Cardinality(S) - 1)
    /\ \A row, other \in S :
           /\ row.created_at = other.created_at
           /\ row.generated_by = other.generated_by

\* C37: every refresh answered 200, and every step that changes the stored
\* starter set, leaves a set of between 1 and STARTER_COUNT rows whose ranks
\* are exactly 0..n-1 and which all carry one created_at and one
\* generated_by tag.
C37_StoredStarterSetWellFormed ==
    [][((IsResponse("refresh") /\ resp'.status = 200)
           \/ conversation_starters' # conversation_starters)
          => StarterSetWellFormed(conversation_starters')]_vars

\* an LLM answer with more usable entries than STARTER_COUNT replaced an
\* earlier set with STARTER_COUNT rows
C37_Witness ==
    /\ resp.op = "refresh"
    /\ resp.status = 200
    /\ resp.req.llm_starters # NULL
    /\ Len(resp.req.llm_starters[1]) = STARTER_COUNT
    /\ Cardinality(conversation_starters) = STARTER_COUNT
    /\ \A row \in conversation_starters :
           row.generated_by = "reddit_llm" /\ row.id > 1

----------------------------------------------------------------------------
\* Calls of _fallback_starters_from_posts

\* the title of PostA in another case and padded, with the same score
PostADup ==
    [title |-> <<" ", "a", "I", " ">>, selftext |-> <<>>, score |-> 5,
     subreddit |-> "news", url |-> "https://reddit.com/a2"]

\* a post that scores lower than PostA
PostD ==
    [title |-> <<"D">>, selftext |-> <<>>, score |-> 4,
     subreddit |-> "news", url |-> "https://reddit.com/d"]

MaxPosts == 3

FallbackPosts == {PostA, PostADup, PostBlank, PostD}

PostLists ==
    UNION {[1..n -> FallbackPosts] : n \in 0..MaxPosts}

NextFallback == FallbackStarters(PostLists, 1..3)

SpecFallback == Init /\ [][NextFallback]_vars

\* the title that the duplicate test compares
NormalizedTitle(post) == Lower(Strip(post.title))

\* the posts, by position, that a starter can have been made from
SourcesOf(starter, posts) ==
    {i \in 1..Len(posts) : posts[i].url = starter.source_url}

\* C38: for a call with desired_count >= 1, the result has at most
\* desired_count starters; each is made from a post whose trimmed title is
\* not empty; the scores of their posts do not increase along the list; no
\* two of their posts have the same trimmed, lower-cased title; a post with
\* a title is left out only as a duplicate of a chosen title or, the list
\* being full, with a score no higher than the last chosen one; and the
\* result is empty only when no post has a trimmed title that is not empty.
C38_FallbackStartersOrderedDistinctBounded ==
    resp.op = "fallback_starters"
      => LET posts == resp.req.posts
             desired_count == resp.req.desired_count
             starters == resp.out.starters
             src(k) == CHOOSE i \in SourcesOf(starters[k], posts) : TRUE
         IN /\ Len(starters) <= desired_count
            /\ \A k \in 1..Len(starters) :
                   /\ SourcesOf(starters[k], posts) # {}
                   /\ Strip(posts[src(k)].title) # <<>>
                   /\ starters[k].title = Take(Strip(posts[src(k)].title), 60)
            /\ \A k \in 1..(Len(starters) - 1) :
                   posts[src(k)].score >= posts[src(k + 1)].score
            /\ \A k, l \in 1..Len(starters) :
                   NormalizedTitle(posts[src(k)])
                       = NormalizedTitle(posts[src(l)]) => k = l
            /\ \A i \in 1..Len(posts) :
                   Strip(posts[i].title) # <<>>
                     => \/ \E k \in 1..Len(starters) :
                               /\ NormalizedTitle(posts[src(k)])
                                      = NormalizedTitle(posts[i])
                               /\ posts[src(k)].score >= posts[i].score
                        \/ /\ Len(starters) = desired_count
                           /\ posts[src(Len(starters))].score
                                  >= posts[i].score
            /\ starters = <<>>
                 => \A i \in 1..Len(posts) : Strip(posts[i].title) = <<>>

\* a call whose posts hold a blank title, two titles equal after trimming
\* and lower-casing, and a lower-scored post that fills the second place
C38_Witness ==
    /\ resp.op = "fallback_starters"
    /\ resp.req.posts = <<PostD, PostBlank, PostADup>>
    /\ resp.req.desired_count = 2
    /\ Len(resp.out.starters) = 2
    /\ resp.out.starters[2].source_url = PostD.url

\* posts that all have blank titles give no starter
C38_WitnessEmpty ==
    /\ resp.op = "fallback_starters"
    /\ resp.req.posts = <<PostBlank, PostBlank>>
    /\ resp.out.starters = <<>>

----------------------------------------------------------------------------
\* Calls of db.save_translation at different times

NextSave ==
    \/ SaveTranslation({"hello", "hola"})
    \/ Tick

SpecSave == Init /\ [][NextSave]_vars

\* the two keys a call writes
KeysOf(req) ==
    {<<req.message, req.translated_text>>,
     <<req.translated_text, req.message>>}

\* C39: a call save_translation(x, y) that follows a call for (x, y) or
\* for (y, x) leaves the set of (text, translated_text) keys as it was and
\* every row of another key untouched (only created_at of the two rows
\* changes); and any call save_translation(x, y) leaves the same keys as
\* the call save_translation(y, x) on the same table would.
C39_SaveTranslationIdempotentSymmetric ==
    [][IsResponse("save_translation")
         => /\ (resp.op = "save_translation"
                  /\ KeysOf(resp.req) = KeysOf(resp'.req))
                 => /\ Pairs(message_translations')
                           = Pairs(message_translations)
                    /\ \A r \in message_translations :
                           <<r.text, r.translated_text>>
                               \notin KeysOf(resp'.req)
                             => r \in message_translations'
                    /\ \A r \in message_translations' :
                           <<r.text, r.translated_text>> \in KeysOf(resp'.req)
                             => r.created_at = now
            /\ Pairs(message_translations')
                 = Pairs(save_translation(message_translations,
                                          resp'.req.translated_text,
                                          resp'.req.message, now))
            /\ KeysOf(resp'.req) \subseteq Pairs(message_translations')]_vars

\* (hello, hola) was saved again at a later time, beside an older row of
\* another key
C39_Witness ==
    /\ resp.op = "save_translation"
    /\ resp.req.message = "hello"
    /\ resp.req.translated_text = "hola"
    /\ \E r, q, o \in message_translations :
          /\ r.text = "hello" /\ r.translated_text = "hola"
          /\ q.text = "hola" /\ q.translated_text = "hello"
          /\ r.created_at = now /\ q.created_at = now
          /\ o.text = "hello" /\ o.translated_text = "hello"
          /\ o.created_at < now
    /\ Cardinality(message_translations) = 3


============================================================================
